---- MODULE Spec2Model ----
(***************************************************************************)
(* PerformanceMetrics (performance_dashboard_server.py): the lock-guarded  *)
(* accumulator of request outcomes with its two bounded logs.              *)
(*                                                                         *)
(* Numbers.  Response times are counted in units of 2^-5 s (0.03125 s):    *)
(* sums, minima and maxima of such values are exact in binary64.  A        *)
(* binary64 value produced by a division or a multiplication is kept as    *)
(*     [num, den, err, exp]  =  num/den + err / (den * 2^exp)              *)
(* that is, the exact quotient plus the accumulated rounding error, both   *)
(* computed with modular arithmetic so that no 53-bit significand is ever  *)
(* written out.  Values returned by round(x, n) are integers counting      *)
(* units of 10^-n.  Wall-clock readings are counted in half seconds.       *)
(***************************************************************************)
EXTENDS Integers, Sequences, FiniteSets, TLC

\* ---------------------------------------------------------------- bounds
\* Calls to record_request explored between two resets.
MaxReq == 3
\* max_history values an instance is constructed with: 0..MaxHistoryArg.
MaxHistoryArg == 2
\* Calls made by all threads together in a concurrent run.
MaxCalls == 3
\* simulate_agent_task calls made before the API calls explored.
EarlierCalls == 25
\* Longest name given to greet.
MaxNameLen == 4
\* Failing requests recorded beyond the capacity of the error log.
MaxOverflow == 2
\* BMI values explored on each side of a category boundary, in hundredths.
BandMargin == 2
\* Requests recorded in a run of timed requests.
MaxRun == 11

\* ------------------------------------------------------ program constants
\* deque(maxlen=50) of the error log.
ErrorLogMaxLen == 50
\* binary64: bits of the significand after the leading one.
MantBits == 52
\* float('inf'), above every response time of the model.
Inf == 1000000
\* None
None == "None"

\* ------------------------------------------------------------- arithmetic
Abs(x) == IF x < 0 THEN -x ELSE x

RECURSIVE Pow2(_)
Pow2(k) == IF k <= 0 THEN 1 ELSE 2 * Pow2(k - 1)

\* 2^k mod m, by repeated squaring
RECURSIVE Pow2Mod(_, _)
Pow2Mod(k, m) ==
    IF k <= 0 THEN 1 % m
    ELSE IF k % 2 = 1 THEN (2 * Pow2Mod(k - 1, m)) % m
    ELSE (Pow2Mod(k \div 2, m) * Pow2Mod(k \div 2, m)) % m

\* floor(log2(a / n)) for a, n > 0
RECURSIVE FloorLog2(_, _)
FloorLog2(a, n) ==
    IF a >= 2 * n THEN 1 + FloorLog2(a, 2 * n)
    ELSE IF a < n THEN FloorLog2(2 * a, n) - 1
    ELSE 0

\* The binary64 value num/den + err/(den * 2^exp).
Fl(num, den, err, exp) == [num |-> num, den |-> den, err |-> err, exp |-> exp]
FZero == Fl(0, 1, 0, 0)
\* An integer (or a multiple of the time unit) as a binary64 value: exact.
FInt(a) == Fl(a, 1, 0, 0)

\* Sign of x - y for two binary64 values x, y >= 0: decided by the exact
\* parts, and by the rounding errors when the exact parts agree.
FCmp(x, y) ==
    LET l == x.num * y.den
        r == y.num * x.den
        k == IF x.exp > y.exp THEN x.exp ELSE y.exp
        el == IF x.err = 0 THEN 0 ELSE x.err * y.den * Pow2(k - x.exp)
        er == IF y.err = 0 THEN 0 ELSE y.err * x.den * Pow2(k - y.exp)
    IN  IF l # r THEN (IF l < r THEN -1 ELSE 1)
        ELSE IF el # er THEN (IF el < er THEN -1 ELSE 1)
        ELSE 0

\* The rounding errors of x and y added up, in units of
\* 1 / (x.den * y.den * 2^max(x.exp, y.exp)).
FErrSum(x, y) ==
    LET k == IF x.exp > y.exp THEN x.exp ELSE y.exp
    IN  (IF x.err = 0 THEN 0 ELSE x.err * y.den * Pow2(k - x.exp))
        + (IF y.err = 0 THEN 0 ELSE y.err * x.den * Pow2(k - y.exp))

\* Round to nearest, ties to even: the correction c with (N + c) a multiple
\* of m, where r = N mod m and odd says floor(N / m) is odd.
RoundCorr(r, m, odd) ==
    IF r = 0 THEN 0
    ELSE IF 2 * r > m \/ (2 * r = m /\ odd) THEN m - r
    ELSE -r

\* a / n in binary64, a >= 0 and n > 0 integers (Python's true division).
\* The significand is round(a * 2^K / n) with K = 52 - floor(log2(a/n)).
FDiv(a, n) ==
    IF a = 0 THEN FZero
    ELSE LET K == MantBits - FloorLog2(a, n)
             r == ((a % n) * Pow2Mod(K, n)) % n
             odd == ((a % (2 * n)) * Pow2Mod(K, 2 * n)) % (2 * n) >= n
         IN  Fl(a, n, RoundCorr(r, n, odd), K)

\* x * 100 in binary64, x >= 0 a binary64 value.
FMul100(x) ==
    IF x.num = 0 THEN FZero
    ELSE LET A == 100 * x.num
             n == x.den
             K == x.exp
             e0 == FloorLog2(A, n)
             \* the product lies below 2^e0 only when its exact part is 2^e0
             \* and the error of x is negative
             E == IF e0 >= 0 /\ A = Pow2(e0) * n /\ x.err < 0 THEN e0 - 1 ELSE e0
             m == n * Pow2(K - (MantBits - E))
             N1 == ((A % m) * Pow2Mod(K, m) + 100 * x.err) % m
             N2 == ((A % (2 * m)) * Pow2Mod(K, 2 * m) + 100 * x.err) % (2 * m)
         IN  Fl(A, n, 100 * x.err + RoundCorr(N1, m, N2 >= m), K)

\* round(x * p / q) to an integer, ties to even, x >= 0 a binary64 value:
\* Python's round(x, ndigits) is correctly rounded on the exact binary value,
\* so a tie of the exact part is broken by the sign of the rounding error.
FRound(x, p, q) ==
    LET a == x.num * p
        b == x.den * q
        f == a \div b
        r == a % b
    IN  IF 2 * r > b THEN f + 1
        ELSE IF 2 * r < b THEN f
        ELSE IF x.err > 0 THEN f + 1
        ELSE IF x.err < 0 THEN f
        ELSE IF f % 2 = 1 THEN f + 1 ELSE f

\* ------------------------------------------------------------------ state
VARIABLES
    metrics,            \* self.metrics
    request_history,    \* self.request_history, oldest record first
    error_log,          \* self.error_log, oldest record first
    max_history,        \* self.max_history = request_history.maxlen
    error_maxlen,       \* error_log.maxlen
    server_start_time,  \* self.server_start_time
    lock,               \* self.lock: the thread holding it, or NoThread
    now,                \* the wall clock, in half seconds
    ret,                \* the value returned by the most recent call
    log,                \* the arguments and the time of the record_request
                        \* calls since construction or the last reset
    lastMut,            \* the last call that changed the accumulator
    lastCall,           \* the most recent call and its limit argument
    pc,                 \* where each thread is in the method it executes
    loc,                \* each thread's call, local variables, return value
    calls,              \* the methods each thread has called, in order
    abs                 \* the accumulator with every call applied in one
                        \* step, at the moment its thread took the lock

\* the instance, the caller of the one-call-at-a-time runs, the threads
inst == <<metrics, request_history, error_log, server_start_time>>
caps == <<max_history, error_maxlen>>
seq == <<ret, log, lastMut, lastCall>>
thr == <<lock, pc, loc, calls, abs>>
vars == <<inst, caps, now, seq, thr>>

\* Arguments of the record_request calls explored: endpoint, response_time
\* (units of 2^-5 s), success, error_message.
Req(e, rt, ok, msg) ==
    [endpoint |-> e, response_time |-> rt, success |-> ok, error_message |-> msg]
Requests ==
    { Req("bmi", 1, TRUE, None), Req("greet", 3, TRUE, None),
      Req("bmi", 3, FALSE, "boom"), Req("greet", 1, FALSE, None),
      Req("bmi", 0, FALSE, "") }
\* Readings of the wall clock at which calls are made, in half seconds
\* (1.5 s apart, so that int() of a difference truncates).
Clock == {0, 3}
\* limit arguments of the two log readers: <<>> is an omitted limit (None),
\* <<k>> the integer k
Limits == {<<>>, <<0>>, <<1>>, <<2>>}

\* Python truth value of an error_message (None or a string).
Truthy(v) == v # None /\ v # ""
\* Python truth value of a limit (None or an integer).
TruthyLimit(l) == l # <<>> /\ l[1] # 0
\* What a call without a return statement returns.
NoValue == [kind |-> "None"]

\* ------------------------------------------------------------ __init__
\* The dict built at lines 24-37.
NewMetrics(t) ==
    [ total_requests |-> 0, successful_requests |-> 0, failed_requests |-> 0,
      total_response_time |-> 0, average_response_time |-> FZero,
      min_response_time |-> Inf, max_response_time |-> 0,
      error_rate |-> FZero, success_rate |-> FZero,
      uptime_seconds |-> 0, start_time |-> t, last_updated |-> t ]

\* (mutant) a list that is never trimmed
DequeAppend_Unbounded(q, n, item) == Append(q, item)

\* deque.append on a deque(maxlen=n): the oldest item leaves a full deque.
DequeAppend(q, n, item) ==
    IF n = 0 THEN q
    ELSE IF Len(q) >= n THEN Append(Tail(q), item)
    ELSE Append(q, item)

\* The fields of the instance as one value.
Self ==
    [ metrics |-> metrics, request_history |-> request_history,
      error_log |-> error_log, server_start_time |-> server_start_time,
      max_history |-> max_history, error_maxlen |-> error_maxlen ]

\* ------------------------------------------------------- record_request
\* line 54
IncTotal(m) == [m EXCEPT !.total_requests = @ + 1]

\* (mutant) the failure counter is left alone
CountOutcome_SkipsFailure(m, success) ==
    IF success THEN [m EXCEPT !.successful_requests = @ + 1] ELSE m

\* lines 56-59: the success or the failure counter
CountOutcome(m, success) ==
    IF success THEN [m EXCEPT !.successful_requests = @ + 1]
    ELSE [m EXCEPT !.failed_requests = @ + 1]

\* (mutant) the error log is a list that is never trimmed
LogError_Unbounded(q, n, t, r) ==
    IF ~r.success /\ Truthy(r.error_message)
    THEN Append(q, [timestamp |-> t, endpoint |-> r.endpoint,
                    error |-> r.error_message])
    ELSE q

\* lines 58-65: the error record of a failed request with a message
LogError(q, n, t, r) ==
    IF ~r.success /\ Truthy(r.error_message)
    THEN DequeAppend(q, n, [timestamp |-> t, endpoint |-> r.endpoint,
                            error |-> r.error_message])
    ELSE q

Min(a, b) == IF b < a THEN b ELSE a
Max(a, b) == IF b > a THEN b ELSE a

\* (mutant) the average is taken of the sum before this request
UpdateTimes_StaleAverage(m, rt) ==
    [m EXCEPT !.total_response_time = @ + rt,
              !.min_response_time = Min(@, rt),
              !.max_response_time = Max(@, rt),
              !.average_response_time =
                  IF m.total_requests = 0 THEN @
                  ELSE FDiv(m.total_response_time, m.total_requests)]

\* (mutant) the average is stored rounded to 4 decimals: R units of 10^-4 s
\* are 2R/625 units of 2^-5 s
UpdateTimes_RoundsAverage(m, rt) ==
    [m EXCEPT !.total_response_time = @ + rt,
              !.min_response_time = Min(@, rt),
              !.max_response_time = Max(@, rt),
              !.average_response_time =
                  IF m.total_requests = 0 THEN @
                  ELSE Fl(2 * FRound(FDiv(m.total_response_time + rt,
                                          m.total_requests), 625, 2), 625, 0, 0)]

\* (mutant) the maximum keeps the first response time it was given
UpdateTimes_FirstMax(m, rt) ==
    [m EXCEPT !.total_response_time = @ + rt,
              !.min_response_time = Min(@, rt),
              !.max_response_time = IF m.total_requests > 1 THEN @ ELSE rt,
              !.average_response_time =
                  IF m.total_requests = 0 THEN @
                  ELSE FDiv(m.total_response_time + rt, m.total_requests)]

\* lines 68-79: running sum, min, max, average; the division raises
\* ZeroDivisionError, before the average is assigned, when total_requests
\* is 0
UpdateTimes(m, rt) ==
    LET total == m.total_response_time + rt
    IN  [m EXCEPT !.total_response_time = total,
                  !.min_response_time = Min(@, rt),
                  !.max_response_time = Max(@, rt),
                  !.average_response_time =
                      IF m.total_requests = 0 THEN @
                      ELSE FDiv(total, m.total_requests)]

\* (mutant) the two rates take each other's counter
UpdateRates_Swapped(m) ==
    [m EXCEPT
        !.success_rate = FMul100(FDiv(m.failed_requests, m.total_requests)),
        !.error_rate = FMul100(FDiv(m.successful_requests, m.total_requests))]

\* (mutant) only the success rate is recomputed
UpdateRates_StaleError(m) ==
    [m EXCEPT
        !.success_rate = FMul100(FDiv(m.successful_requests, m.total_requests))]

\* lines 82-88
UpdateRates(m) ==
    IF m.total_requests > 0
    THEN [m EXCEPT
            !.success_rate = FMul100(FDiv(m.successful_requests, m.total_requests)),
            !.error_rate = FMul100(FDiv(m.failed_requests, m.total_requests))]
    ELSE m

\* lines 91-92: int(time.time() - self.server_start_time)
UpdateUptime(m, t, start) ==
    [m EXCEPT !.uptime_seconds = (t - start) \div 2, !.last_updated = t]

\* round(response_time, 4): units of 10^-4 s
Round4(rt) == FRound(FInt(rt), 625, 2)

\* lines 95-101
RequestRecord(t, r) ==
    [timestamp |-> t, endpoint |-> r.endpoint,
     response_time |-> Round4(r.response_time),
     success |-> r.success, error |-> r.error_message]

\* The metrics after the whole locked section, lines 54-92.
RecordedMetrics(m, r, t, start) ==
    UpdateUptime(UpdateRates(UpdateTimes(CountOutcome(IncTotal(m), r.success),
                                         r.response_time)), t, start)

\* The instance after record_request(r) at time t, lines 53-101.
Recorded(self, r, t) ==
    [self EXCEPT
        !.metrics = RecordedMetrics(self.metrics, r, t, self.server_start_time),
        !.error_log = LogError(self.error_log, self.error_maxlen, t, r),
        !.request_history = DequeAppend(self.request_history, self.max_history,
                                        RequestRecord(t, r))]

\* A call: the method, the request of record_request, the limit of a reader.
Call(op, limit) == [op |-> op, limit |-> limit]

record_request(r) ==
    /\ Len(log) < MaxReq
    /\ metrics' = RecordedMetrics(metrics, r, now, server_start_time)
    /\ error_log' = LogError(error_log, error_maxlen, now, r)
    /\ request_history' = DequeAppend(request_history, max_history,
                                      RequestRecord(now, r))
    /\ ret' = NoValue
    /\ log' = Append(log, [args |-> r, at |-> now])
    /\ lastMut' = "record_request"
    /\ lastCall' = Call("record_request", <<>>)
    /\ UNCHANGED <<server_start_time, caps, now, thr>>

\* ----------------------------------------------------------- get_metrics
\* (mutant) the sentinel is rounded like any other value
MetricsCopy_KeepsInf(m) ==
    [m EXCEPT
        !.average_response_time = FRound(m.average_response_time, 625, 2),
        !.min_response_time = FRound(FInt(m.min_response_time), 625, 2),
        !.max_response_time = FRound(FInt(m.max_response_time), 625, 2),
        !.success_rate = FRound(m.success_rate, 100, 1),
        !.error_rate = FRound(m.error_rate, 100, 1)]

\* lines 107-118: the copy, with inf replaced and the five roundings
MetricsCopy(m) ==
    LET lo == IF m.min_response_time = Inf THEN 0 ELSE m.min_response_time
    IN  [m EXCEPT
            !.average_response_time = FRound(m.average_response_time, 625, 2),
            !.min_response_time = FRound(FInt(lo), 625, 2),
            !.max_response_time = FRound(FInt(m.max_response_time), 625, 2),
            !.success_rate = FRound(m.success_rate, 100, 1),
            !.error_rate = FRound(m.error_rate, 100, 1)]

\* ------------------------------------- get_request_history, get_error_log
\* seq[start:] of Python, start any integer
SliceFrom(q, start) ==
    LET n == Len(q)
        s == IF start < 0 THEN Max(start + n, 0) ELSE Min(start, n)
    IN  SubSeq(q, s + 1, n)

\* (mutant) the oldest records are returned instead of the most recent
Recent_Oldest(q, limit) ==
    IF TruthyLimit(limit) THEN SubSeq(q, 1, Min(limit[1], Len(q))) ELSE q

\* (mutant) a limit of 0 asks for no records
Recent_ZeroIsEmpty(q, limit) ==
    IF limit = <<>> THEN q
    ELSE IF limit[1] = 0 THEN <<>>
    ELSE SliceFrom(q, -limit[1])

\* lines 123-126 and 131-134
Recent(q, limit) == IF TruthyLimit(limit) THEN SliceFrom(q, -limit[1]) ELSE q

\* What a call returns on the instance self.
Returned(self, c) ==
    CASE c.op = "get_metrics" ->
            [kind |-> "metrics", value |-> MetricsCopy(self.metrics)]
      [] c.op = "get_request_history" ->
            [kind |-> "history", value |-> Recent(self.request_history, c.limit)]
      [] c.op = "get_error_log" ->
            [kind |-> "errors", value |-> Recent(self.error_log, c.limit)]
      [] OTHER -> NoValue

\* (mutant) the substitution of 0.0 for the sentinel is written to the
\* stored dict
get_metrics_StoresZero ==
    /\ ret' = Returned(Self, Call("get_metrics", <<>>))
    /\ metrics' = [metrics EXCEPT !.min_response_time = IF @ = Inf THEN 0 ELSE @]
    /\ lastCall' = Call("get_metrics", <<>>)
    /\ UNCHANGED <<request_history, error_log, server_start_time, caps, now, log,
                   lastMut, thr>>

get_metrics ==
    /\ ret' = Returned(Self, Call("get_metrics", <<>>))
    /\ lastCall' = Call("get_metrics", <<>>)
    /\ UNCHANGED <<inst, caps, now, log, lastMut, thr>>

\* (mutant) a reader that hands out the deque's records by removing them
get_request_history_Consuming(limit) ==
    /\ ret' = Returned(Self, Call("get_request_history", limit))
    /\ request_history' = <<>>
    /\ lastCall' = Call("get_request_history", limit)
    /\ UNCHANGED <<metrics, error_log, server_start_time, caps, now, log,
                   lastMut, thr>>

get_request_history(limit) ==
    /\ ret' = Returned(Self, Call("get_request_history", limit))
    /\ lastCall' = Call("get_request_history", limit)
    /\ UNCHANGED <<inst, caps, now, log, lastMut, thr>>

get_error_log(limit) ==
    /\ ret' = Returned(Self, Call("get_error_log", limit))
    /\ lastCall' = Call("get_error_log", limit)
    /\ UNCHANGED <<inst, caps, now, log, lastMut, thr>>

\* --------------------------------------------------------- reset_metrics
\* (mutant) the minimum restarts at 0.0 instead of the sentinel
ResetDict_MinZero(t) ==
    [ total_requests |-> 0, successful_requests |-> 0, failed_requests |-> 0,
      total_response_time |-> 0, average_response_time |-> FZero,
      min_response_time |-> 0, max_response_time |-> 0,
      error_rate |-> FZero, success_rate |-> FZero,
      uptime_seconds |-> 0, start_time |-> t, last_updated |-> t ]

\* The dict built at lines 139-152.
ResetDict(t) ==
    [ total_requests |-> 0, successful_requests |-> 0, failed_requests |-> 0,
      total_response_time |-> 0, average_response_time |-> FZero,
      min_response_time |-> Inf, max_response_time |-> 0,
      error_rate |-> FZero, success_rate |-> FZero,
      uptime_seconds |-> 0, start_time |-> t, last_updated |-> t ]

\* The instance after reset_metrics() at time t, lines 138-155.
WasReset(self, t) ==
    [self EXCEPT !.metrics = ResetDict(t), !.request_history = <<>>,
                 !.error_log = <<>>, !.server_start_time = t]

\* (mutant) the request log is rebuilt with the capacity of the error log
reset_metrics_NewCapacity ==
    /\ metrics' = ResetDict(now)
    /\ request_history' = <<>>
    /\ error_log' = <<>>
    /\ server_start_time' = now
    /\ max_history' = ErrorLogMaxLen
    /\ ret' = NoValue
    /\ log' = <<>>
    /\ lastMut' = "reset_metrics"
    /\ lastCall' = Call("reset_metrics", <<>>)
    /\ UNCHANGED <<error_maxlen, now, thr>>

reset_metrics ==
    /\ metrics' = ResetDict(now)
    /\ request_history' = <<>>
    /\ error_log' = <<>>
    /\ server_start_time' = now
    /\ ret' = NoValue
    /\ log' = <<>>
    /\ lastMut' = "reset_metrics"
    /\ lastCall' = Call("reset_metrics", <<>>)
    /\ UNCHANGED <<caps, now, thr>>

\* The wall clock advances between calls.
Tick ==
    /\ \E t \in Clock : t > now
    /\ now' = CHOOSE t \in Clock : t > now /\ \A u \in Clock : u > now => t <= u
    /\ UNCHANGED <<inst, caps, seq, thr>>

\* ------------------------------------------------------------- threads
Threads == {"t1", "t2"}
NoThread == "none"
\* record_request arguments and limits of the calls made concurrently
ThreadRequests == {Req("bmi", 1, TRUE, None), Req("greet", 3, FALSE, "boom")}
ThreadCalls ==
    {[op |-> "record_request", req |-> r, limit |-> <<>>] : r \in ThreadRequests}
    \cup {[op |-> o, req |-> None, limit |-> <<>>] :
             o \in {"get_metrics", "reset_metrics"}}
    \cup {[op |-> o, req |-> None, limit |-> <<1>>] :
             o \in {"get_request_history", "get_error_log"}}
Idle == [call |-> [op |-> "None"], tmp |-> 0, ret |-> NoValue, expect |-> NoValue]

\* PerformanceMetrics(max_history), lines 22-41
Constructed(n) ==
    /\ now = 0
    /\ max_history = n
    /\ error_maxlen = ErrorLogMaxLen
    /\ metrics = NewMetrics(0)
    /\ request_history = <<>>
    /\ error_log = <<>>
    /\ lock = NoThread
    /\ server_start_time = 0
    /\ ret = NoValue
    /\ log = <<>>
    /\ lastMut = "init"
    /\ lastCall = Call("__init__", <<>>)
    /\ pc = [t \in Threads |-> "idle"]
    /\ loc = [t \in Threads |-> Idle]
    /\ calls = [t \in Threads |-> <<>>]
    /\ abs = Self

Init == \E n \in 0..MaxHistoryArg : Constructed(n)

Next ==
    \/ \E r \in Requests : record_request(r)
    \/ get_metrics
    \/ \E limit \in Limits : get_request_history(limit)
    \/ \E limit \in Limits : get_error_log(limit)
    \/ reset_metrics
    \/ Tick

Spec == Init /\ [][Next]_vars

\* ------------------------------------------- the caller and what it got
\* The three read methods.
Readers == {"get_metrics", "get_request_history", "get_error_log"}

\* list(self.request_history), list(self.error_log) (lines 123, 131) build a
\* new list of the same record objects; the slice keeps the tail of it, so
\* item k of the returned list is the item at this position of the deque.
StoredAt(q, returned, k) == Len(q) - Len(returned) + k

\* The caller removes the first item of the list it got: the list is the
\* caller's own (lines 123-125, 131-133), the deque keeps its items.
ChangeReturnedList ==
    /\ lastCall.op \in {"get_request_history", "get_error_log"}
    /\ ret.value # <<>>
    /\ ret' = [ret EXCEPT !.value = Tail(@)]
    /\ lastCall' = Call("change_list", <<>>)
    /\ UNCHANGED <<inst, caps, now, log, lastMut, thr>>

\* The caller assigns to a key of the dict it got from get_metrics: the dict
\* is self.metrics.copy() (line 107), its values are numbers and strings.
ChangeReturnedDict ==
    /\ lastCall.op = "get_metrics"
    /\ ret' = [ret EXCEPT !.value.total_requests = @ + 1]
    /\ lastCall' = Call("change_dict", <<>>)
    /\ UNCHANGED <<inst, caps, now, log, lastMut, thr>>

\* The caller assigns to a key of record k of the list it got: the record is
\* the dict object appended at lines 95-101 (61-65), held by the deque too.
ChangeReturnedRecord(k) ==
    /\ lastCall.op \in {"get_request_history", "get_error_log"}
    /\ k \in 1..Len(ret.value)
    /\ ret' = [ret EXCEPT !.value[k].endpoint = "changed"]
    /\ IF lastCall.op = "get_request_history"
       THEN /\ request_history' =
                  [request_history EXCEPT
                      ![StoredAt(request_history, ret.value, k)].endpoint = "changed"]
            /\ error_log' = error_log
       ELSE /\ error_log' =
                  [error_log EXCEPT
                      ![StoredAt(error_log, ret.value, k)].endpoint = "changed"]
            /\ request_history' = request_history
    /\ lastCall' = Call("change_record", <<k>>)
    /\ UNCHANGED <<metrics, server_start_time, caps, now, log, lastMut, thr>>

CallerNext ==
    \/ \E r \in ThreadRequests : record_request(r)
    \/ get_metrics
    \/ \E limit \in Limits : get_request_history(limit)
    \/ \E limit \in Limits : get_error_log(limit)
    \/ reset_metrics
    \/ ChangeReturnedList
    \/ ChangeReturnedDict
    \/ \E k \in 1..MaxReq : ChangeReturnedRecord(k)

CallerSpec == Init /\ [][CallerNext]_vars

\* ------------------------------------------------- a long run of failures
\* The i-th call of a run of failing requests: each has its own endpoint and
\* message, so that the records of the error log can be told apart.
ErrorRequest(i) ==
    Req("task" \o ToString(i), 1 + 2 * (i % 2), FALSE, "boom " \o ToString(i))

\* record_request, called with the next failing request of the run, which
\* goes MaxOverflow calls beyond the capacity of the error log.
record_error ==
    /\ Len(log) < ErrorLogMaxLen + MaxOverflow
    /\ metrics' = RecordedMetrics(metrics, ErrorRequest(Len(log) + 1), now,
                                  server_start_time)
    /\ error_log' = LogError(error_log, error_maxlen, now, ErrorRequest(Len(log) + 1))
    /\ request_history' = DequeAppend(request_history, max_history,
                                      RequestRecord(now, ErrorRequest(Len(log) + 1)))
    /\ ret' = NoValue
    /\ log' = Append(log, [args |-> ErrorRequest(Len(log) + 1), at |-> now])
    /\ lastMut' = "record_request"
    /\ lastCall' = Call("record_request", <<>>)
    /\ UNCHANGED <<server_start_time, caps, now, thr>>

ErrorsNext ==
    \/ record_error
    \/ \E limit \in Limits : get_error_log(limit)
    \/ reset_metrics

ErrorsSpec == Init /\ [][ErrorsNext]_vars

\* --------------------------------------------- a long run of timed requests
\* Response times of the requests of the run, in units of 2^-5 s.
RunTimes == {1, 3}

\* record_request, called with a successful request that took rt; the run
\* is long enough for the average to be a quotient by 11.
record_timed(rt) ==
    /\ Len(log) < MaxRun
    /\ metrics' = RecordedMetrics(metrics, Req("task", rt, TRUE, None), now,
                                  server_start_time)
    /\ error_log' = LogError(error_log, error_maxlen, now,
                             Req("task", rt, TRUE, None))
    /\ request_history' = DequeAppend(request_history, max_history,
                                      RequestRecord(now, Req("task", rt, TRUE, None)))
    /\ ret' = NoValue
    /\ log' = Append(log, [args |-> Req("task", rt, TRUE, None), at |-> now])
    /\ lastMut' = "record_request"
    /\ lastCall' = Call("record_request", <<>>)
    /\ UNCHANGED <<server_start_time, caps, now, thr>>

TimesNext ==
    \/ \E rt \in RunTimes : record_timed(rt)
    \/ get_metrics
    \/ reset_metrics

TimesSpec == Init /\ [][TimesNext]_vars

\* ------------------------------------------------------ the API functions
\* The functions of lines 161-360 work on the module's tracker,
\* performance_tracker = PerformanceMetrics() (line 158).
DefaultMaxHistory == 100
HistoryLimitCap == 100
ErrorLimitCap == 50
DefaultHistoryLimit == 20
DefaultErrorLimit == 10
DashboardRequests == 10
DashboardErrors == 5

\* A Python value given as an argument: its type, its number (durations
\* count units of 2^-5 s; True is 1 and False 0), its text, and for a float
\* whether it is NaN.
Py(type, n, s) == [type |-> type, n |-> n, s |-> s, nan |-> FALSE]
PyInt(n) == Py("int", n, "")
PyFloat(n) == Py("float", n, "")
PyBool(b) == Py("bool", IF b THEN 1 ELSE 0, "")
PyStr(s) == Py("str", 0, s)
PyNone == Py("NoneType", 0, "")
PyNaN == [type |-> "float", n |-> 0, s |-> "", nan |-> TRUE]
\* An argument left out of the call.
Omitted == Py("omitted", 0, "")
\* An int of more than 4300 digits, such as 10**5000: converting it to text
\* raises ValueError (the interpreter limits int-to-str conversion).
PyHuge == Py("huge int", 0, "")

\* isinstance(x, int): bool is a subclass of int
IsInt(x) == x.type \in {"int", "bool"}
\* isinstance(x, (int, float))
IsNumber(x) == x.type \in {"int", "bool", "float"}
\* f"{x}" can be built: formatting the value does not raise
Formats(x) == x.type # "huge int"
\* str(x), the text an f-string inserts
Str(x) ==
    CASE x.type = "str" -> x.s
      [] x.type = "NoneType" -> "None"
      [] x.type = "bool" -> (IF x.n = 1 THEN "True" ELSE "False")
      [] OTHER -> ToString(x.n)

\* str.strip(): leading and trailing whitespace removed
Whitespace == {" ", "\t", "\n"}
RECURSIVE LStrip(_)
LStrip(s) ==
    IF Len(s) > 0 /\ SubSeq(s, 1, 1) \in Whitespace THEN LStrip(SubSeq(s, 2, Len(s)))
    ELSE s
RECURSIVE RStrip(_)
RStrip(s) ==
    IF Len(s) > 0 /\ SubSeq(s, Len(s), Len(s)) \in Whitespace
    THEN RStrip(SubSeq(s, 1, Len(s) - 1))
    ELSE s
Strip(s) == RStrip(LStrip(s))

\* An API call and its arguments, for lastCall.
ApiCall(op, args) == [op |-> op, args |-> args]
ErrorEnvelope(msg) == [status |-> "error", message |-> msg]
\* What the body of a function does: it returns a value or raises.
Returns(v) == [raised |-> FALSE, value |-> v]
Raises(msg) == [raised |-> TRUE, message |-> msg]

\* try: ... except Exception as e: return the error envelope with
\* f"{prefix}{str(e)}" (lines 183-187, 216-220, 249-253, 333-337, 356-360)
Caught(outcome, prefix) ==
    IF outcome.raised THEN Returns(ErrorEnvelope(prefix \o outcome.message))
    ELSE outcome

\* lines 177-187
get_performance_metrics ==
    /\ ret' = Caught(Returns([status |-> "success", data |-> MetricsCopy(metrics)]),
                     "Failed to retrieve metrics: ").value
    /\ lastCall' = ApiCall("get_performance_metrics", <<>>)
    /\ UNCHANGED <<inst, caps, now, log, lastMut, thr>>

\* (mutant) any integer is accepted
BadLimit_TypeOnly(limit) == ~IsInt(limit)

\* line 201 (234): not isinstance(limit, int) or limit < 1
BadLimit(limit) == ~IsInt(limit) \/ limit.n < 1

\* (mutant) the count is the limit asked for
Listing_CountsLimit(q, limit, default, cap) ==
    IF BadLimit(IF limit = Omitted THEN PyInt(default) ELSE limit)
    THEN Returns(ErrorEnvelope("Limit must be a positive integer"))
    ELSE LET l == IF limit = Omitted THEN default ELSE limit.n
         IN  Returns([status |-> "success",
                      data |-> Recent(q, <<Min(l, cap)>>),
                      count |-> Min(l, cap)])

\* lines 201-215 (234-248): the body of the API get_request_history on the
\* list q the tracker holds, with the function's default and cap
Listing(q, limit, default, cap) ==
    IF BadLimit(IF limit = Omitted THEN PyInt(default) ELSE limit)
    THEN Returns(ErrorEnvelope("Limit must be a positive integer"))
    ELSE LET l == IF limit = Omitted THEN default ELSE limit.n
         IN  Returns([status |-> "success",
                      data |-> Recent(q, <<Min(l, cap)>>),
                      count |-> Len(Recent(q, <<Min(l, cap)>>))])

\* The API function get_request_history, lines 189-220.
api_get_request_history(limit) ==
    /\ ret' = Caught(Listing(request_history, limit, DefaultHistoryLimit,
                             HistoryLimitCap),
                     "Failed to retrieve request history: ").value
    /\ lastCall' = ApiCall("get_request_history", limit)
    /\ UNCHANGED <<inst, caps, now, log, lastMut, thr>>

\* The API function get_error_log, lines 222-253.
api_get_error_log(limit) ==
    /\ ret' = Caught(Listing(error_log, limit, DefaultErrorLimit, ErrorLimitCap),
                     "Failed to retrieve error log: ").value
    /\ lastCall' = ApiCall("get_error_log", limit)
    /\ UNCHANGED <<inst, caps, now, log, lastMut, thr>>

\* The arguments of a simulate_agent_task call.
Task(name, duration, should_fail) ==
    [task_name |-> name, duration |-> duration, should_fail |-> should_fail]

\* (mutant) a task asked to fail completes
SimBody_NeverFails(task) ==
    IF task.task_name.type # "str" \/ Strip(task.task_name.s) = ""
    THEN Raises("Task name must be a non-empty string")
    ELSE IF ~IsNumber(task.duration) \/ (~task.duration.nan /\ task.duration.n < 0)
    THEN Raises("Duration must be a non-negative number")
    ELSE IF task.should_fail.type # "bool"
    THEN Raises("should_fail must be a boolean")
    ELSE IF task.duration.nan
    THEN Raises("Invalid value NaN (not a number)")
    ELSE Returns("completed")

\* lines 270-285: the validations, the sleep (time.sleep raises ValueError
\* for NaN) and the requested failure
SimBody(task) ==
    IF task.task_name.type # "str" \/ Strip(task.task_name.s) = ""
    THEN Raises("Task name must be a non-empty string")
    ELSE IF ~IsNumber(task.duration) \/ (~task.duration.nan /\ task.duration.n < 0)
    THEN Raises("Duration must be a non-negative number")
    ELSE IF task.should_fail.type # "bool"
    THEN Raises("should_fail must be a boolean")
    ELSE IF task.duration.nan
    THEN Raises("Invalid value NaN (not a number)")
    ELSE IF task.should_fail.n = 1
    THEN Raises("Simulated failure for task: " \o task.task_name.s)
    ELSE Returns("completed")

\* The task has passed the validations: it sleeps.
Sleeps(task) ==
    /\ task.task_name.type = "str" /\ Strip(task.task_name.s) # ""
    /\ IsNumber(task.duration) /\ (task.duration.nan \/ task.duration.n >= 0)
    /\ task.should_fail.type = "bool"

\* time.time() - start_time (lines 287, 302), in units of 2^-5 s: what the
\* clock shows after a sleep, or after a validation that raised at once
Elapsed(task) == IF Sleeps(task) /\ ~task.duration.nan THEN {3} ELSE {1}

\* The record_request call of lines 288-292 or 305-310.
SimRequest(task, rt) ==
    IF SimBody(task).raised
    THEN Req("simulate_agent_task:" \o Str(task.task_name), rt, FALSE,
             SimBody(task).message)
    ELSE Req("simulate_agent_task:" \o Str(task.task_name), rt, TRUE, None)

\* The dict returned at lines 294-299 or 312-317.
SimEnvelope(task, rt) ==
    IF SimBody(task).raised
    THEN [status |-> "error", task_name |-> task.task_name,
          duration |-> Round4(rt), message |-> SimBody(task).message]
    ELSE [status |-> "success", task_name |-> task.task_name,
          duration |-> Round4(rt),
          message |-> "Task '" \o Str(task.task_name) \o "' completed successfully"]

\* lines 301-306: the except branch builds f"simulate_agent_task:{task_name}"
\* for its record_request call; a name that is not a str has failed the check
\* of line 271, and if formatting it raises, the exception is raised inside
\* the handler and leaves the function before anything is recorded
HandlerRaises(task) == ~Formats(task.task_name)

\* (mutant) a call rejected by the validations returns its error without
\* recording anything
simulate_agent_task_RejectsUnrecorded(task) ==
    /\ Len(log) < MaxReq
    /\ IF HandlerRaises(task)
       THEN /\ ret' = Raises("Exceeds the limit (4300 digits) for integer string conversion")
            /\ UNCHANGED <<metrics, error_log, request_history, log, lastMut>>
       ELSE IF ~Sleeps(task)
       THEN /\ \E rt \in Elapsed(task) : ret' = SimEnvelope(task, rt)
            /\ UNCHANGED <<metrics, error_log, request_history, log, lastMut>>
       ELSE /\ \E rt \in Elapsed(task) :
                 /\ metrics' = RecordedMetrics(metrics, SimRequest(task, rt), now,
                                               server_start_time)
                 /\ error_log' = LogError(error_log, error_maxlen, now,
                                          SimRequest(task, rt))
                 /\ request_history' = DequeAppend(request_history, max_history,
                                                   RequestRecord(now, SimRequest(task, rt)))
                 /\ ret' = SimEnvelope(task, rt)
                 /\ log' = Append(log, [args |-> SimRequest(task, rt), at |-> now,
                                        task |-> task])
            /\ lastMut' = "record_request"
    /\ lastCall' = ApiCall("simulate_agent_task", task)
    /\ UNCHANGED <<server_start_time, caps, now, thr>>

\* lines 255-317
simulate_agent_task(task) ==
    /\ Len(log) < MaxReq
    /\ IF HandlerRaises(task)
       THEN /\ ret' = Raises("Exceeds the limit (4300 digits) for integer string conversion")
            /\ UNCHANGED <<metrics, error_log, request_history, log, lastMut>>
       ELSE /\ \E rt \in Elapsed(task) :
                 /\ metrics' = RecordedMetrics(metrics, SimRequest(task, rt), now,
                                               server_start_time)
                 /\ error_log' = LogError(error_log, error_maxlen, now,
                                          SimRequest(task, rt))
                 /\ request_history' = DequeAppend(request_history, max_history,
                                                   RequestRecord(now, SimRequest(task, rt)))
                 /\ ret' = SimEnvelope(task, rt)
                 /\ log' = Append(log, [args |-> SimRequest(task, rt), at |-> now,
                                        task |-> task])
            /\ lastMut' = "record_request"
    /\ lastCall' = ApiCall("simulate_agent_task", task)
    /\ UNCHANGED <<server_start_time, caps, now, thr>>

\* lines 319-337
reset_performance_metrics ==
    /\ metrics' = ResetDict(now)
    /\ request_history' = <<>>
    /\ error_log' = <<>>
    /\ server_start_time' = now
    /\ ret' = Caught(Returns([status |-> "success",
                              message |-> "Performance metrics have been reset",
                              timestamp |-> now]),
                     "Failed to reset metrics: ").value
    /\ log' = <<>>
    /\ lastMut' = "reset_metrics"
    /\ lastCall' = ApiCall("reset_performance_metrics", <<>>)
    /\ UNCHANGED <<caps, now, thr>>

\* lines 339-360
get_dashboard_data ==
    /\ ret' = Caught(Returns(
                  [status |-> "success",
                   data |-> [metrics |-> MetricsCopy(metrics),
                             recent_requests |->
                                 Recent(request_history, <<DashboardRequests>>),
                             recent_errors |-> Recent(error_log, <<DashboardErrors>>)],
                   timestamp |-> now]),
                  "Failed to retrieve dashboard data: ").value
    /\ lastCall' = ApiCall("get_dashboard_data", <<>>)
    /\ UNCHANGED <<inst, caps, now, log, lastMut, thr>>

\* Arguments of the API calls explored.
ApiLimits ==
    { Omitted, PyInt(1), PyInt(2), PyInt(150), PyInt(0), PyInt(-5),
      PyBool(TRUE), PyBool(FALSE), PyFloat(32), PyStr("3"), PyNone }
Tasks ==
    { Task(PyStr("a"), PyFloat(3), PyBool(FALSE)),
      Task(PyStr(" b "), PyInt(0), PyBool(TRUE)),
      Task(PyStr("  "), PyFloat(3), PyBool(FALSE)),
      Task(PyInt(123), PyFloat(3), PyBool(FALSE)),
      Task(PyStr("a"), PyFloat(-32), PyBool(FALSE)),
      Task(PyStr("a"), PyNaN, PyBool(FALSE)),
      Task(PyStr("a"), PyFloat(3), PyInt(1)),
      Task(PyHuge, PyFloat(3), PyBool(FALSE)) }

\* The tasks of a run of simulate_agent_task calls made before the calls
\* explored: every second one is asked to fail.
EarlierTask(k) ==
    Task(PyStr("a"), PyFloat(3), PyBool(k % 2 = 0))
EarlierLog(k) ==
    [i \in 1..k |-> [args |-> SimRequest(EarlierTask(i), 3), at |-> 0,
                     task |-> EarlierTask(i)]]
\* The tracker after the first k of them.
Loaded[k \in 0..EarlierCalls + 1] ==
    IF k = 0
    THEN [metrics |-> NewMetrics(0), request_history |-> <<>>, error_log |-> <<>>,
          server_start_time |-> 0, max_history |-> DefaultMaxHistory,
          error_maxlen |-> ErrorLogMaxLen]
    ELSE Recorded(Loaded[k - 1], SimRequest(EarlierTask(k), 3), 0)

\* The module's tracker after import (line 158) and EarlierCalls calls of
\* simulate_agent_task.
Busy ==
    /\ now = 0
    /\ max_history = DefaultMaxHistory
    /\ error_maxlen = ErrorLogMaxLen
    /\ metrics = Loaded[EarlierCalls].metrics
    /\ request_history = Loaded[EarlierCalls].request_history
    /\ error_log = Loaded[EarlierCalls].error_log
    /\ lock = NoThread
    /\ server_start_time = 0
    /\ ret = SimEnvelope(EarlierTask(EarlierCalls), 3)
    /\ log = EarlierLog(EarlierCalls)
    /\ lastMut = "record_request"
    /\ lastCall = ApiCall("simulate_agent_task", EarlierTask(EarlierCalls))
    /\ pc = [t \in Threads |-> "idle"]
    /\ loc = [t \in Threads |-> Idle]
    /\ calls = [t \in Threads |-> <<>>]
    /\ abs = Self

\* The module's tracker after import (line 158), or after earlier calls.
ApiInit == Constructed(DefaultMaxHistory) \/ Busy

ApiNext ==
    \/ get_performance_metrics
    \/ \E limit \in ApiLimits : api_get_request_history(limit)
    \/ \E limit \in ApiLimits : api_get_error_log(limit)
    \/ \E task \in Tasks : simulate_agent_task(task)
    \/ reset_performance_metrics
    \/ get_dashboard_data

ApiSpec == ApiInit /\ [][ApiNext]_vars

\* ---------------------------------------------- the methods, step by step
\* A thread calls a method: it arrives at "with self.lock:".
RECURSIVE CallsMade(_)
CallsMade(S) ==
    IF S = {} THEN 0
    ELSE LET t == CHOOSE u \in S : TRUE IN Len(calls[t]) + CallsMade(S \ {t})

Invoke(t, c) ==
    /\ pc[t] = "idle"
    /\ CallsMade(Threads) < MaxCalls
    /\ pc' = [pc EXCEPT ![t] = "acquire"]
    /\ loc' = [loc EXCEPT ![t] = [Idle EXCEPT !.call = c]]
    /\ calls' = [calls EXCEPT ![t] = Append(@, c.op)]
    /\ UNCHANGED <<inst, caps, now, seq, lock, abs>>

\* (mutant) no lock at all
CanAcquire_NoWait(t) == TRUE

\* (mutant) the readers do not take the lock
CanAcquire_WritersOnly(t) ==
    \/ lock = NoThread
    \/ loc[t].call.op \in {"get_metrics", "get_request_history", "get_error_log"}

\* (mutant) one lock per method instead of one per instance
CanAcquire_PerMethod(t) ==
    IF lock = NoThread THEN TRUE ELSE loc[lock].call.op # loc[t].call.op

\* threading.Lock: acquired only when no thread holds it
CanAcquire(t) == lock = NoThread

\* The first statement of each method's locked section.
FirstPc(op) ==
    CASE op = "record_request" -> "rec_read"
      [] op = "get_metrics" -> "gm_copy"
      [] op = "get_request_history" -> "gh_read"
      [] op = "get_error_log" -> "ge_read"
      [] op = "reset_metrics" -> "rs_dict"

\* The instance after the whole call c at time t.
Applied(self, c, t) ==
    CASE c.op = "record_request" -> Recorded(self, c.req, t)
      [] c.op = "reset_metrics" -> WasReset(self, t)
      [] OTHER -> self

\* "with self.lock:" entered (lines 53, 105, 122, 130, 138).
Acquire(t) ==
    /\ pc[t] = "acquire"
    /\ CanAcquire(t)
    /\ lock' = t
    /\ pc' = [pc EXCEPT ![t] = FirstPc(loc[t].call.op)]
    /\ abs' = Applied(abs, loc[t].call, now)
    /\ loc' = [loc EXCEPT ![t].expect = Returned(abs, loc[t].call)]
    /\ UNCHANGED <<inst, caps, now, seq, calls>>

\* A statement of thread t: from pc value at to pc value to.
Step(t, at, to) ==
    /\ pc[t] = at
    /\ pc' = [pc EXCEPT ![t] = to]

\* line 54, the read of self.metrics["total_requests"] ...
RecRead(t) ==
    /\ Step(t, "rec_read", "rec_write")
    /\ loc' = [loc EXCEPT ![t].tmp = metrics.total_requests]
    /\ UNCHANGED <<inst, caps, now, seq, lock, calls, abs>>

\* ... and the write of that value plus one
RecWrite(t) ==
    /\ Step(t, "rec_write", "rec_outcome")
    /\ metrics' = [metrics EXCEPT !.total_requests = loc[t].tmp + 1]
    /\ UNCHANGED <<request_history, error_log, server_start_time, caps, now,
                   seq, lock, loc, calls, abs>>

\* lines 56-65
RecOutcome(t) ==
    /\ Step(t, "rec_outcome", "rec_times")
    /\ metrics' = CountOutcome(metrics, loc[t].call.req.success)
    /\ error_log' = LogError(error_log, error_maxlen, now, loc[t].call.req)
    /\ UNCHANGED <<request_history, server_start_time, caps, now, seq, lock,
                   loc, calls, abs>>

\* lines 68-79; an exception leaves the with block and the method
RecTimes(t) ==
    /\ pc[t] = "rec_times"
    /\ metrics' = UpdateTimes(metrics, loc[t].call.req.response_time)
    /\ IF metrics.total_requests = 0
       THEN /\ pc' = [pc EXCEPT ![t] = "release"]
            /\ loc' = [loc EXCEPT ![t].ret = [kind |-> "ZeroDivisionError"]]
       ELSE /\ pc' = [pc EXCEPT ![t] = "rec_rates"]
            /\ loc' = loc
    /\ UNCHANGED <<request_history, error_log, server_start_time, caps, now,
                   seq, lock, calls, abs>>

\* lines 82-88
RecRates(t) ==
    /\ Step(t, "rec_rates", "rec_stamp")
    /\ metrics' = UpdateRates(metrics)
    /\ UNCHANGED <<request_history, error_log, server_start_time, caps, now,
                   seq, lock, loc, calls, abs>>

\* (mutant) the with block ends before the request record is appended
RecStamp_ReleasesEarly(t) ==
    /\ Step(t, "rec_stamp", "rec_append")
    /\ metrics' = UpdateUptime(metrics, now, server_start_time)
    /\ lock' = NoThread
    /\ UNCHANGED <<request_history, error_log, server_start_time, caps, now,
                   seq, loc, calls, abs>>

\* lines 91-92
RecStamp(t) ==
    /\ Step(t, "rec_stamp", "rec_append")
    /\ metrics' = UpdateUptime(metrics, now, server_start_time)
    /\ UNCHANGED <<request_history, error_log, server_start_time, caps, now,
                   seq, lock, loc, calls, abs>>

\* lines 95-101
RecAppend(t) ==
    /\ Step(t, "rec_append", "release")
    /\ request_history' = DequeAppend(request_history, max_history,
                                      RequestRecord(now, loc[t].call.req))
    /\ UNCHANGED <<metrics, error_log, server_start_time, caps, now, seq,
                   lock, loc, calls, abs>>

\* line 107
GmCopy(t) ==
    /\ Step(t, "gm_copy", "gm_round")
    /\ loc' = [loc EXCEPT ![t].tmp = metrics]
    /\ UNCHANGED <<inst, caps, now, seq, lock, calls, abs>>

\* lines 108-118
GmRound(t) ==
    /\ Step(t, "gm_round", "release")
    /\ loc' = [loc EXCEPT ![t].ret =
                  [kind |-> "metrics", value |-> MetricsCopy(loc[t].tmp)]]
    /\ UNCHANGED <<inst, caps, now, seq, lock, calls, abs>>

\* lines 123-126
GhRead(t) ==
    /\ Step(t, "gh_read", "release")
    /\ loc' = [loc EXCEPT ![t].ret = Returned(Self, loc[t].call)]
    /\ UNCHANGED <<inst, caps, now, seq, lock, calls, abs>>

\* lines 131-134
GeRead(t) ==
    /\ Step(t, "ge_read", "release")
    /\ loc' = [loc EXCEPT ![t].ret = Returned(Self, loc[t].call)]
    /\ UNCHANGED <<inst, caps, now, seq, lock, calls, abs>>

\* lines 139-152
RsDict(t) ==
    /\ Step(t, "rs_dict", "rs_history")
    /\ metrics' = ResetDict(now)
    /\ UNCHANGED <<request_history, error_log, server_start_time, caps, now,
                   seq, lock, loc, calls, abs>>

\* line 153
RsHistory(t) ==
    /\ Step(t, "rs_history", "rs_errors")
    /\ request_history' = <<>>
    /\ UNCHANGED <<metrics, error_log, server_start_time, caps, now, seq,
                   lock, loc, calls, abs>>

\* line 154
RsErrors(t) ==
    /\ Step(t, "rs_errors", "rs_start")
    /\ error_log' = <<>>
    /\ UNCHANGED <<metrics, request_history, server_start_time, caps, now,
                   seq, lock, loc, calls, abs>>

\* line 155
RsStart(t) ==
    /\ Step(t, "rs_start", "release")
    /\ server_start_time' = now
    /\ UNCHANGED <<metrics, request_history, error_log, caps, now, seq, lock,
                   loc, calls, abs>>

\* (mutant) the method returns without releasing the lock
Release_KeepsLock(t) ==
    /\ Step(t, "release", "idle")
    /\ UNCHANGED <<inst, caps, now, seq, lock, loc, calls, abs>>

\* The end of the with block: the lock is released and the method returns.
Release(t) ==
    /\ Step(t, "release", "idle")
    /\ lock' = NoThread
    /\ UNCHANGED <<inst, caps, now, seq, loc, calls, abs>>

ThreadInit == Init /\ max_history = MaxHistoryArg

ThreadNext ==
    \E t \in Threads :
        \/ \E c \in ThreadCalls : Invoke(t, c)
        \/ Acquire(t)
        \/ RecRead(t) \/ RecWrite(t) \/ RecOutcome(t) \/ RecTimes(t)
        \/ RecRates(t) \/ RecStamp(t) \/ RecAppend(t)
        \/ GmCopy(t) \/ GmRound(t)
        \/ GhRead(t) \/ GeRead(t)
        \/ RsDict(t) \/ RsHistory(t) \/ RsErrors(t) \/ RsStart(t)
        \/ Release(t)

ThreadSpec == ThreadInit /\ [][ThreadNext]_vars

\* The values of pc.
PcValues ==
    {"idle", "acquire", "release", "rec_read", "rec_write", "rec_outcome",
     "rec_times", "rec_rates", "rec_stamp", "rec_append", "gm_copy", "gm_round",
     "gh_read", "ge_read", "rs_dict", "rs_history", "rs_errors", "rs_start"}

\* Thread t can execute its next statement: it is inside a method, and not
\* waiting for a lock that is held.
Runnable(t) == pc[t] # "idle" /\ (pc[t] = "acquire" => CanAcquire(t))

\* Thread t executes a statement: the steps of ThreadNext that move pc[t]
\* from a value other than "idle" are those of Acquire(t) .. Release(t).
Statement(t) ==
    /\ Runnable(t)
    /\ \E p \in PcValues \ {pc[t]} : pc' = [pc EXCEPT ![t] = p]

\* Fair scheduling: a thread that can execute its next statement, or take
\* the free lock, eventually does.  The threads make finitely many calls, so
\* a waiting thread is not overtaken for ever.
FairThreadSpec == ThreadSpec /\ \A t \in Threads : WF_pc(Statement(t))

\* ------------------------------------- simulate_agent_task, step by step
\* Tasks of the simulate_agent_task calls made concurrently.
ThreadTasks ==
    { Task(PyStr("a"), PyFloat(3), PyBool(FALSE)),
      Task(PyStr(" b "), PyInt(0), PyBool(TRUE)),
      Task(PyInt(123), PyFloat(3), PyBool(FALSE)),
      Task(PyHuge, PyFloat(3), PyBool(FALSE)) }

\* A thread calls simulate_agent_task (line 255): it arrives at the
\* validations.
SimInvoke(t, task) ==
    /\ pc[t] = "idle"
    /\ CallsMade(Threads) < MaxCalls
    /\ pc' = [pc EXCEPT ![t] = "sim_validate"]
    /\ loc' = [loc EXCEPT ![t] =
                  [Idle EXCEPT !.call = [op |-> "simulate_agent_task", req |-> None,
                                         limit |-> <<>>, task |-> task]]]
    /\ calls' = [calls EXCEPT ![t] = Append(@, "simulate_agent_task")]
    /\ UNCHANGED <<inst, caps, now, seq, lock, abs>>

\* (mutant) the function takes the tracker's lock before it sleeps
SimValidate_Locked(t) ==
    /\ pc[t] = "sim_validate"
    /\ lock = NoThread
    /\ lock' = t
    /\ pc' = [pc EXCEPT ![t] =
                 IF Sleeps(loc[t].call.task) /\ ~loc[t].call.task.duration.nan
                 THEN "sim_sleep" ELSE "sim_record"]
    /\ UNCHANGED <<inst, caps, now, seq, loc, calls, abs>>

\* lines 270-278: the validations; a ValueError goes to the except branch
SimValidate(t) ==
    /\ pc[t] = "sim_validate"
    /\ pc' = [pc EXCEPT ![t] =
                 IF Sleeps(loc[t].call.task) /\ ~loc[t].call.task.duration.nan
                 THEN "sim_sleep" ELSE "sim_record"]
    /\ UNCHANGED <<inst, caps, now, seq, lock, loc, calls, abs>>

\* line 281: time.sleep(min(duration, 5.0)) ends
SimSleep(t) ==
    /\ Step(t, "sim_sleep", "sim_record")
    /\ UNCHANGED <<inst, caps, now, seq, lock, loc, calls, abs>>

\* lines 284-292 or 301-310: performance_tracker.record_request(...) is
\* called, unless building its endpoint argument raises
SimRecord(t) ==
    /\ pc[t] = "sim_record"
    /\ IF HandlerRaises(loc[t].call.task)
       THEN /\ pc' = [pc EXCEPT ![t] = "idle"]
            /\ loc' = [loc EXCEPT ![t].ret = [kind |-> "ValueError"]]
       ELSE /\ pc' = [pc EXCEPT ![t] = "acquire"]
            /\ \E rt \in Elapsed(loc[t].call.task) :
                  loc' = [loc EXCEPT ![t].call =
                             [op |-> "record_request",
                              req |-> SimRequest(loc[t].call.task, rt),
                              limit |-> <<>>]]
    /\ UNCHANGED <<inst, caps, now, seq, lock, calls, abs>>

\* Threads call simulate_agent_task and the methods of the module's tracker
\* concurrently.
TaskNext ==
    \E t \in Threads :
        \/ \E task \in ThreadTasks : SimInvoke(t, task)
        \/ SimValidate(t) \/ SimSleep(t) \/ SimRecord(t)
        \/ \E c \in ThreadCalls : Invoke(t, c)
        \/ Acquire(t)
        \/ RecRead(t) \/ RecWrite(t) \/ RecOutcome(t) \/ RecTimes(t)
        \/ RecRates(t) \/ RecStamp(t) \/ RecAppend(t)
        \/ GmCopy(t) \/ GmRound(t)
        \/ GhRead(t) \/ GeRead(t)
        \/ RsDict(t) \/ RsHistory(t) \/ RsErrors(t) \/ RsStart(t)
        \/ Release(t)

TaskSpec == Constructed(DefaultMaxHistory) /\ [][TaskNext]_vars

\* -------------------------------------- get_dashboard_data, step by step
\* The three method calls of lines 350-352, in the order the dict display
\* evaluates them, and the limit each is given.
DashParts == <<"get_metrics", "get_request_history", "get_error_log">>
DashLimit(k) ==
    CASE k = 1 -> <<>> [] k = 2 -> <<DashboardRequests>> [] k = 3 -> <<DashboardErrors>>
\* The k-th call, with the values the earlier ones returned.
DashCall(k, got) ==
    [op |-> DashParts[k], req |-> None, limit |-> DashLimit(k), part |-> k, got |-> got]
\* Thread t is inside get_dashboard_data.
InDashboard(t) == "part" \in DOMAIN loc[t].call

\* A thread calls get_dashboard_data (line 339): it arrives at the
\* "with self.lock:" of get_metrics.
DashInvoke(t) ==
    /\ pc[t] = "idle"
    /\ CallsMade(Threads) < MaxCalls
    /\ pc' = [pc EXCEPT ![t] = "acquire"]
    /\ loc' = [loc EXCEPT ![t] = [Idle EXCEPT !.call = DashCall(1, <<>>)]]
    /\ calls' = [calls EXCEPT ![t] = Append(@, "get_dashboard_data")]
    /\ UNCHANGED <<inst, caps, now, seq, lock, abs>>

\* (mutant) one lock held from the first method to the last
DashReturn_KeepsLock(t) ==
    /\ pc[t] = "release"
    /\ InDashboard(t)
    /\ IF loc[t].call.part < Len(DashParts)
       THEN /\ lock' = lock
            /\ pc' = [pc EXCEPT ![t] = FirstPc(DashParts[loc[t].call.part + 1])]
            /\ loc' = [loc EXCEPT ![t].call =
                          DashCall(loc[t].call.part + 1,
                                   Append(loc[t].call.got, loc[t].ret.value)),
                       ![t].expect =
                          Returned(abs, DashCall(loc[t].call.part + 1, <<>>))]
       ELSE /\ lock' = NoThread
            /\ pc' = [pc EXCEPT ![t] = "idle"]
            /\ loc' = [loc EXCEPT ![t].ret =
                          [kind |-> "dashboard",
                           value |-> [metrics |-> loc[t].call.got[1],
                                      recent_requests |-> loc[t].call.got[2],
                                      recent_errors |-> loc[t].ret.value]]]
    /\ UNCHANGED <<inst, caps, now, seq, calls, abs>>

\* A method called by get_dashboard_data returns: its lock is released, and
\* the next method is called (lines 350-352) or the dict is returned
\* (lines 347-355).
DashReturn(t) ==
    /\ pc[t] = "release"
    /\ InDashboard(t)
    /\ lock' = NoThread
    /\ IF loc[t].call.part < Len(DashParts)
       THEN /\ pc' = [pc EXCEPT ![t] = "acquire"]
            /\ loc' = [loc EXCEPT ![t].call =
                          DashCall(loc[t].call.part + 1,
                                   Append(loc[t].call.got, loc[t].ret.value))]
       ELSE /\ pc' = [pc EXCEPT ![t] = "idle"]
            /\ loc' = [loc EXCEPT ![t].ret =
                          [kind |-> "dashboard",
                           value |-> [metrics |-> loc[t].call.got[1],
                                      recent_requests |-> loc[t].call.got[2],
                                      recent_errors |-> loc[t].ret.value]]]
    /\ UNCHANGED <<inst, caps, now, seq, calls, abs>>

\* Calls other threads make while a dashboard is being read.
WriterCalls == {c \in ThreadCalls : c.op \in {"record_request", "reset_metrics"}}

\* Threads call get_dashboard_data, record_request and reset_metrics
\* concurrently on the module's tracker.
DashNext ==
    \E t \in Threads :
        \/ DashInvoke(t)
        \/ \E c \in WriterCalls : Invoke(t, c)
        \/ Acquire(t)
        \/ RecRead(t) \/ RecWrite(t) \/ RecOutcome(t) \/ RecTimes(t)
        \/ RecRates(t) \/ RecStamp(t) \/ RecAppend(t)
        \/ GmCopy(t) \/ GmRound(t)
        \/ GhRead(t) \/ GeRead(t)
        \/ RsDict(t) \/ RsHistory(t) \/ RsErrors(t) \/ RsStart(t)
        \/ (~InDashboard(t) /\ Release(t))
        \/ DashReturn(t)

DashSpec == Constructed(DefaultMaxHistory) /\ [][DashNext]_vars

\* ------------------------------------------------------------------ greet
\* bool(x), the truth value "not name" tests
PyTruthy(x) ==
    CASE x.type = "str" -> x.s # ""
      [] x.type = "NoneType" -> FALSE
      [] x.type = "float" -> x.nan \/ x.n # 0
      [] OTHER -> x.n # 0

\* (mutant) the name is greeted as given
Greet_Unstripped(name) ==
    IF ~PyTruthy(name) \/ name.type # "str"
    THEN [error |-> "Name must be a non-empty string"]
    ELSE IF Strip(name.s) = ""
    THEN [error |-> "Name must be a non-empty string"]
    ELSE [message |-> "Hello, " \o name.s \o "!", name |-> name.s]

\* greet(name), bmi_mcp_server.py lines 41-54
Greet(name) ==
    IF ~PyTruthy(name) \/ name.type # "str"
    THEN [error |-> "Name must be a non-empty string"]
    ELSE IF Strip(name.s) = ""
    THEN [error |-> "Name must be a non-empty string"]
    ELSE [message |-> "Hello, " \o Strip(name.s) \o "!", name |-> Strip(name.s)]

\* A call of greet; name="World" when the argument is left out (line 41).
greet(name) ==
    /\ ret' = Greet(IF name = Omitted THEN PyStr("World") ELSE name)
    /\ lastCall' = ApiCall("greet", name)
    /\ UNCHANGED <<inst, caps, now, log, lastMut, thr>>

\* The names explored: every text of up to MaxNameLen of these characters,
\* and values that are not text.
NameChars == {"a", " ", "\t"}
RECURSIVE NamesUpTo(_)
NamesUpTo(k) ==
    IF k = 0 THEN {""}
    ELSE NamesUpTo(k - 1) \cup {s \o c : s \in NamesUpTo(k - 1), c \in NameChars}
GreetArgs ==
    {PyStr(s) : s \in NamesUpTo(MaxNameLen)}
    \cup {Omitted, PyNone, PyInt(123), PyInt(0), PyBool(TRUE), PyFloat(3)}

GreetNext == \E name \in GreetArgs : greet(name)

\* greet uses nothing of the tracker, which stays as constructed.
GreetSpec == Constructed(DefaultMaxHistory) /\ [][GreetNext]_vars

\* ------------------------------------------------------- the BMI functions
\* bmi_mcp_server.py, lines 4-39.  A height or weight is the binary64 number
\* m * 2^e; a BMI that round(bmi, 2) returned counts hundredths.
Num(m, e) == [m |-> m, e |-> e]
\* binary64: a product below 2^-1075 is rounded to 0.0
UnderflowExp == -1075
\* height * height (line 9) is 0.0
SquareIsZero(height) ==
    2 * height.e + FloorLog2(height.m * height.m, 1) < UnderflowExp

\* weight / (height * height) in binary64, for a square that is not 0.0: the
\* quotient of two integers, the powers of two moved to one side
Quotient(height, weight) ==
    IF weight.e >= 2 * height.e
    THEN FDiv(weight.m * Pow2(weight.e - 2 * height.e), height.m * height.m)
    ELSE FDiv(weight.m, height.m * height.m * Pow2(2 * height.e - weight.e))

\* calculate_bmi, lines 4-10
CalculateBmi(height, weight) ==
    IF height.m <= 0 \/ weight.m <= 0
    THEN Returns([error |-> "Height and weight must be positive values"])
    ELSE IF SquareIsZero(height)
    THEN Raises("float division by zero")
    ELSE Returns([bmi |-> FRound(Quotient(height, weight), 100, 1)])

\* (mutant) the boundaries belong to the band below them
Category_BoundaryBelow(bmi) ==
    IF bmi <= 1850 THEN "Underweight"
    ELSE IF 1850 < bmi /\ bmi <= 2500 THEN "Normal weight"
    ELSE IF 2500 < bmi /\ bmi <= 3000 THEN "Overweight"
    ELSE "Obesity"

\* get_bmi_category, lines 14-21: the comparisons with 18.5, 25 and 30
Category(bmi) ==
    IF bmi < 1850 THEN "Underweight"
    ELSE IF 1850 <= bmi /\ bmi < 2500 THEN "Normal weight"
    ELSE IF 2500 <= bmi /\ bmi < 3000 THEN "Overweight"
    ELSE "Obesity"

\* f"{bmi}" of a float with at most two decimals: 22.86, 22.5, 16.0
BmiText(bmi) ==
    ToString(bmi \div 100) \o "." \o
        (IF bmi % 10 = 0 THEN ToString((bmi % 100) \div 10)
         ELSE IF bmi % 100 < 10 THEN "0" \o ToString(bmi % 100)
         ELSE ToString(bmi % 100))

\* get_bmi_category, lines 14-21, given a binary64 value that was not
\* rounded to hundredths
QuotientCategory(x) ==
    IF FCmp(x, Fl(37, 2, 0, 0)) < 0 THEN "Underweight"
    ELSE IF FCmp(x, FInt(25)) < 0 THEN "Normal weight"
    ELSE IF FCmp(x, FInt(30)) < 0 THEN "Overweight"
    ELSE "Obesity"

\* (mutant) the category is taken of the quotient before it is rounded
BmiAssessment_ClassifiesUnrounded(height, weight) ==
    IF CalculateBmi(height, weight).raised THEN CalculateBmi(height, weight)
    ELSE IF "error" \in DOMAIN CalculateBmi(height, weight).value
    THEN CalculateBmi(height, weight)
    ELSE Returns(
           [bmi |-> CalculateBmi(height, weight).value.bmi,
            category |-> QuotientCategory(Quotient(height, weight)),
            message |-> "Your BMI is "
                \o BmiText(CalculateBmi(height, weight).value.bmi)
                \o ", which is classified as '"
                \o QuotientCategory(Quotient(height, weight)) \o "'"])

\* bmi_assessment, lines 25-39
BmiAssessment(height, weight) ==
    IF CalculateBmi(height, weight).raised THEN CalculateBmi(height, weight)
    ELSE IF "error" \in DOMAIN CalculateBmi(height, weight).value
    THEN CalculateBmi(height, weight)
    ELSE Returns(
           [bmi |-> CalculateBmi(height, weight).value.bmi,
            category |-> Category(CalculateBmi(height, weight).value.bmi),
            message |-> "Your BMI is "
                \o BmiText(CalculateBmi(height, weight).value.bmi)
                \o ", which is classified as '"
                \o Category(CalculateBmi(height, weight).value.bmi) \o "'"])

\* What the caller has after a call: the value returned, or the exception.
Outcome(o) == IF o.raised THEN o ELSE o.value

calculate_bmi(height, weight) ==
    /\ ret' = Outcome(CalculateBmi(height, weight))
    /\ lastCall' = ApiCall("calculate_bmi", [height |-> height, weight |-> weight])
    /\ UNCHANGED <<inst, caps, now, log, lastMut, thr>>

get_bmi_category(bmi) ==
    /\ ret' = [category |-> Category(bmi)]
    /\ lastCall' = ApiCall("get_bmi_category", [bmi |-> bmi])
    /\ UNCHANGED <<inst, caps, now, log, lastMut, thr>>

bmi_assessment(height, weight) ==
    /\ ret' = Outcome(BmiAssessment(height, weight))
    /\ lastCall' = ApiCall("bmi_assessment", [height |-> height, weight |-> weight])
    /\ UNCHANGED <<inst, caps, now, log, lastMut, thr>>

\* The arguments explored: heights in quarters of a metre and one of
\* 2^-600 m, weights in kilograms and two in 2^-10 kg (99.990234375 kg and
\* 120.01953125 kg, whose quotients by 2 m squared are 24.99755859375 and
\* 30.0048828125), BMI values in hundredths around every boundary.
Heights == {Num(m, -2) : m \in {-4, 0, 5, 6, 7, 8}} \cup {Num(1, -600)}
Weights ==
    {Num(m, 0) : m \in {-1, 0, 1, 45, 57, 70, 77, 92, 120}}
        \cup {Num(102390, -10), Num(122900, -10)}
BmiValues ==
    {-500, 0, 1} \cup (1850 - BandMargin .. 1850 + BandMargin)
        \cup (2500 - BandMargin .. 2500 + BandMargin)
        \cup (3000 - BandMargin .. 3000 + BandMargin) \cup {2286, 4000, Inf}

BmiNext ==
    \/ \E height \in Heights, weight \in Weights : calculate_bmi(height, weight)
    \/ \E bmi \in BmiValues : get_bmi_category(bmi)
    \/ \E height \in Heights, weight \in Weights : bmi_assessment(height, weight)

\* The BMI functions use nothing of the tracker, which stays as constructed.
BmiSpec == Constructed(DefaultMaxHistory) /\ [][BmiNext]_vars

\* ===================================================================
\* Properties of the accumulator, one call at a time (Spec)
\* ===================================================================
\* What the calls since construction or the last reset were given.
RECURSIVE SumOfTimes(_)
SumOfTimes(q) ==
    IF q = <<>> THEN 0 ELSE q[1].args.response_time + SumOfTimes(Tail(q))
RECURSIVE MinOfTimes(_)
MinOfTimes(q) ==
    IF Len(q) = 1 THEN q[1].args.response_time
    ELSE Min(q[1].args.response_time, MinOfTimes(Tail(q)))
RECURSIVE MaxOfTimes(_)
MaxOfTimes(q) ==
    IF Len(q) = 1 THEN q[1].args.response_time
    ELSE Max(q[1].args.response_time, MaxOfTimes(Tail(q)))
Succeeded == Cardinality({i \in 1..Len(log) : log[i].args.success})
Failed == Cardinality({i \in 1..Len(log) : ~log[i].args.success})
\* The request records of all those calls, and the last n of a sequence.
AllRecorded == [i \in 1..Len(log) |-> RequestRecord(log[i].at, log[i].args)]
LastOf(q, n) == SubSeq(q, Len(q) - Min(n, Len(q)) + 1, Len(q))

\* C1: after any sequence of record_request and reset_metrics calls,
\* successful_requests + failed_requests = total_requests.
C1_CountsAddUp ==
    metrics.successful_requests + metrics.failed_requests = metrics.total_requests

C1_Witness ==
    /\ lastMut = "record_request"
    /\ metrics.successful_requests > 0
    /\ metrics.failed_requests > 1

\* C5: the request log never holds more than max_history records; it holds
\* the last max_history records of the calls made, oldest first, and
\* get_request_history() without a limit returns exactly those.
C5_BoundedRequestLog ==
    /\ Len(request_history) <= max_history
    /\ request_history = LastOf(AllRecorded, max_history)
    /\ lastCall = Call("get_request_history", <<>>) =>
          /\ ret.value = LastOf(AllRecorded, max_history)
          /\ Len(log) >= max_history => Len(ret.value) = max_history

C5_Witness ==
    /\ lastCall = Call("get_request_history", <<>>)
    /\ max_history >= 1
    /\ Len(log) > max_history
    /\ Len(ret.value) = max_history
    /\ ret.value[1] # AllRecorded[1]

\* A snapshot, a state without its timestamps.
Untimed(m) == [m EXCEPT !.start_time = 0, !.last_updated = 0]

\* C6: after reset_metrics the accumulator is the freshly constructed one but
\* for the timestamps: same metrics, both logs empty, and get_metrics,
\* get_request_history and get_error_log return what they return on a fresh
\* instance.
C6_ResetIsFresh ==
    lastMut = "reset_metrics" =>
        /\ Untimed(metrics) = NewMetrics(0)
        /\ request_history = <<>>
        /\ error_log = <<>>
        /\ error_maxlen = ErrorLogMaxLen
        /\ server_start_time = metrics.start_time
        /\ metrics.last_updated = metrics.start_time
        /\ ret.kind = "metrics" =>
              Untimed(ret.value) = MetricsCopy(NewMetrics(0))
        /\ ret.kind \in {"history", "errors"} => ret.value = <<>>

C6_Witness ==
    /\ lastMut = "reset_metrics"
    /\ lastCall = Call("get_metrics", <<>>)
    /\ metrics.start_time > 0

\* C7: with no request recorded since construction or the last reset,
\* get_metrics reports min_response_time 0.0, and max, average and both
\* rates 0.0.
C7_EmptySnapshot ==
    (log = <<>> /\ ret.kind = "metrics") =>
        /\ ret.value.min_response_time = 0
        /\ ret.value.max_response_time = 0
        /\ ret.value.average_response_time = 0
        /\ ret.value.success_rate = 0
        /\ ret.value.error_rate = 0

C7_Witness ==
    /\ lastMut = "init"
    /\ lastCall = Call("get_metrics", <<>>)
    /\ metrics.min_response_time = Inf

\* C8: after n >= 1 calls with response times r1..rn >= 0 the metrics hold
\* min = min(r1..rn), max = max(r1..rn) and average = (r1+...+rn)/n, the
\* quotient being the binary64 one; after one call all three are its
\* response time.
C8_ResponseTimeStats ==
    log # <<>> =>
        /\ metrics.min_response_time = MinOfTimes(log)
        /\ metrics.max_response_time = MaxOfTimes(log)
        /\ metrics.total_response_time = SumOfTimes(log)
        /\ metrics.average_response_time = FDiv(SumOfTimes(log), Len(log))
        /\ Len(log) = 1 =>
              /\ metrics.min_response_time = log[1].args.response_time
              /\ metrics.max_response_time = log[1].args.response_time
              /\ FCmp(metrics.average_response_time,
                      FInt(log[1].args.response_time)) = 0

C8_Witness ==
    /\ Len(log) = 3
    /\ metrics.min_response_time < metrics.max_response_time
    /\ metrics.average_response_time.err # 0

\* C9 as stated: success_rate = 100 * s / (s + f) and error_rate =
\* 100 * f / (s + f), after s successes and f failures.
C9_RatesAreExactPercentages ==
    log # <<>> =>
        /\ FCmp(metrics.success_rate, FDiv(100 * Succeeded, Len(log))) = 0
        /\ FCmp(metrics.error_rate, FDiv(100 * Failed, Len(log))) = 0

\* |x - num/den| <= 2^-k, for k <= x.exp
FWithin(x, k) == x.err = 0 \/ Abs(x.err) <= x.den * Pow2(x.exp - k)

\* C9, amended: success_rate is s / (s + f) * 100 and error_rate is
\* f / (s + f) * 100 as binary64 computes them, quotient first; each is
\* within 2^-46 of the percentage 100 * s / (s + f), 100 * f / (s + f).
C9_RatesAreRoundedPercentages ==
    log # <<>> =>
        /\ metrics.success_rate = FMul100(FDiv(Succeeded, Len(log)))
        /\ metrics.error_rate = FMul100(FDiv(Failed, Len(log)))
        /\ metrics.success_rate.num * Len(log)
              = 100 * Succeeded * metrics.success_rate.den
        /\ metrics.error_rate.num * Len(log)
              = 100 * Failed * metrics.error_rate.den
        /\ FWithin(metrics.success_rate, 46)
        /\ FWithin(metrics.error_rate, 46)

C9_Witness ==
    /\ Succeeded = 1
    /\ Failed = 2
    /\ metrics.success_rate.err # 0
    /\ FCmp(metrics.success_rate, FDiv(100, 3)) # 0

\* The exact parts of two rates add up to 100.
ExactSum100(x, y) == x.num * y.den + y.num * x.den = 100 * x.den * y.den

\* x + y in binary64 is 100.0: the exact sum is within half a unit in the
\* last place of 100 (2^-47; 100 has an even significand, a tie goes to it).
FSumIs100(x, y) ==
    /\ ExactSum100(x, y)
    /\ \/ FErrSum(x, y) = 0
       \/ 2 * Abs(FErrSum(x, y))
             <= x.den * y.den * Pow2(Max(x.exp, y.exp) - 46)

\* C10 as stated: success_rate + error_rate = 100 when total_requests > 0,
\* and both are 0 when total_requests = 0.
C10_RatesSumTo100 ==
    /\ metrics.total_requests > 0 =>
          FSumIs100(metrics.success_rate, metrics.error_rate)
    /\ metrics.total_requests = 0 =>
          /\ metrics.success_rate = FZero
          /\ metrics.error_rate = FZero

\* C10, amended: when total_requests > 0 the two rates add up to 100 to
\* within 2^-45 (exactly when neither quotient was rounded); when
\* total_requests = 0 both are 0.
C10_RatesSumNear100 ==
    /\ metrics.total_requests > 0 =>
          /\ ExactSum100(metrics.success_rate, metrics.error_rate)
          /\ LET x == metrics.success_rate
                 y == metrics.error_rate
                 k == Max(x.exp, y.exp)
             IN  Abs(FErrSum(x, y)) <= x.den * y.den * Pow2(k - 45)
    /\ metrics.total_requests = 0 =>
          /\ metrics.success_rate = FZero
          /\ metrics.error_rate = FZero

C10_Witness ==
    /\ metrics.total_requests = 3
    /\ metrics.successful_requests = 1
    /\ ~FSumIs100(metrics.success_rate, metrics.error_rate)

\* ===================================================================
\* Properties of the accumulator under concurrent calls (ThreadSpec)
\* ===================================================================
\* every thread is outside the locked sections
AllOut == \A t \in Threads : pc[t] \in {"idle", "acquire"}
\* every call made has returned
AllReturned == \A t \in Threads : pc[t] = "idle"
\* how many times the threads in S called method op
RECURSIVE CallsOf(_, _)
CallsOf(S, op) ==
    IF S = {} THEN 0
    ELSE LET t == CHOOSE u \in S : TRUE
         IN  Cardinality({i \in DOMAIN calls[t] : calls[t][i] = op})
             + CallsOf(S \ {t}, op)

\* C2: when threads have called record_request concurrently, with no
\* reset_metrics among the calls, and every call has returned, then
\* total_requests is the number of record_request calls made: no update
\* is lost.
C2_NoLostUpdates ==
    (AllReturned /\ CallsOf(Threads, "reset_metrics") = 0)
        => metrics.total_requests = CallsOf(Threads, "record_request")

\* every thread has called record_request exactly once, nothing else, and
\* all the calls have returned
C2_Witness ==
    /\ AllReturned
    /\ \A t \in Threads : calls[t] = <<"record_request">>
    /\ metrics.total_requests = Cardinality(Threads)

\* C3: the dict that get_metrics copies, and the snapshot it returns, never
\* show a total_requests that differs from successful_requests plus
\* failed_requests, whatever the other threads are doing.
C3_NoTornReads ==
    \A t \in Threads :
        /\ pc[t] = "gm_round" =>
              loc[t].tmp.successful_requests + loc[t].tmp.failed_requests
                  = loc[t].tmp.total_requests
        /\ loc[t].ret.kind = "metrics" =>
              loc[t].ret.value.successful_requests
                  + loc[t].ret.value.failed_requests
                  = loc[t].ret.value.total_requests

\* get_metrics has built its snapshot of a non-empty accumulator while
\* another thread waits for the lock in record_request
C3_Witness ==
    \E t, u \in Threads :
        /\ pc[t] = "release" /\ loc[t].ret.kind = "metrics"
        /\ loc[t].ret.value.total_requests > 0
        /\ pc[u] = "acquire" /\ loc[u].call.op = "record_request"

\* C4: the five methods are serializable: whenever no thread is inside a
\* locked section the accumulator is what the calls made so far leave when
\* run one at a time in the order in which they took the lock, and every
\* call returns what it returns in that sequential run.
C4_Serializable ==
    /\ AllOut => Self = abs
    /\ \A t \in Threads :
          pc[t] \in {"release", "idle"} => loc[t].ret = loc[t].expect

\* one thread recorded a request and then read the history, the other reset
\* the accumulator in between: the reader got an empty history
C4_Witness ==
    \E t, u \in Threads :
        /\ AllReturned
        /\ calls[t] = <<"record_request", "get_request_history">>
        /\ calls[u] = <<"reset_metrics">>
        /\ loc[t].ret = [kind |-> "history", value |-> <<>>]

\* C11 as stated: every record_request call with success = False appends
\* one error record, whatever its error_message; after f failed calls since
\* the last reset the error log holds min(f, 50) records.
C11_EveryFailureLogged == Len(error_log) = Min(Failed, ErrorLogMaxLen)

\* C12: for a positive limit L, get_request_history(L) returns the last
\* min(L, retained) request records, oldest first, and get_error_log(L) the
\* last min(L, retained) error records; a limit above the retained size
\* returns everything retained, and so does an omitted limit.
C12_RecentRecords ==
    /\ lastCall.op = "get_request_history" =>
          /\ lastCall.limit = <<>> => ret.value = request_history
          /\ (lastCall.limit # <<>> /\ lastCall.limit[1] > 0) =>
                /\ ret.value = LastOf(request_history, lastCall.limit[1])
                /\ Len(ret.value) = Min(lastCall.limit[1], Len(request_history))
                /\ lastCall.limit[1] >= Len(request_history) =>
                      ret.value = request_history
    /\ lastCall.op = "get_error_log" =>
          /\ lastCall.limit = <<>> => ret.value = error_log
          /\ (lastCall.limit # <<>> /\ lastCall.limit[1] > 0) =>
                /\ ret.value = LastOf(error_log, lastCall.limit[1])
                /\ Len(ret.value) = Min(lastCall.limit[1], Len(error_log))
                /\ lastCall.limit[1] >= Len(error_log) => ret.value = error_log

\* get_error_log(1) on a log of three different error records returned the
\* newest one only
C12_Witness ==
    /\ lastCall = Call("get_error_log", <<1>>)
    /\ Len(error_log) = 3
    /\ error_log[1] # error_log[3]
    /\ ret.value = <<error_log[3]>>

\* ===================================================================
\* Properties of the values handed to the caller (CallerSpec)
\* ===================================================================
\* C13 as stated: get_metrics, get_request_history and get_error_log leave
\* the whole accumulator unchanged, and so does any change the caller makes
\* to the list or dict it got.
C13_ReadsAndReturnedValuesAreDetached ==
    [][lastCall'.op \in Readers \cup {"change_list", "change_dict", "change_record"}
          => UNCHANGED <<inst, caps>>]_vars

\* C13, amended: the three readers leave the whole accumulator unchanged,
\* and so does a change to the returned list itself or to the dict returned
\* by get_metrics; a change to a record of a returned list is a change to
\* the record the log holds at that position, and to nothing else.
C13_ReadsLeaveStateRecordsAreShared ==
    [][/\ lastCall'.op \in Readers \cup {"change_list", "change_dict"}
             => UNCHANGED <<inst, caps>>
       /\ (lastCall'.op = "change_record" /\ lastCall.op = "get_request_history")
             => /\ request_history' =
                      [request_history EXCEPT
                          ![Len(request_history) - Len(ret.value) + lastCall'.limit[1]]
                              = ret'.value[lastCall'.limit[1]]]
                /\ ret'.value # ret.value => request_history' # request_history
                /\ UNCHANGED <<metrics, error_log, server_start_time, caps>>
       /\ (lastCall'.op = "change_record" /\ lastCall.op = "get_error_log")
             => /\ error_log' =
                      [error_log EXCEPT
                          ![Len(error_log) - Len(ret.value) + lastCall'.limit[1]]
                              = ret'.value[lastCall'.limit[1]]]
                /\ ret'.value # ret.value => error_log' # error_log
                /\ UNCHANGED <<metrics, request_history, server_start_time, caps>>
      ]_vars

\* the caller changed the only record returned by get_request_history(1),
\* and the newest of the two records of the log is the changed one
C13_Witness ==
    /\ lastCall = Call("change_record", <<1>>)
    /\ Len(request_history) = 2
    /\ Len(ret.value) = 1
    /\ request_history[1].endpoint # "changed"
    /\ request_history[2].endpoint = "changed"

\* C14: under fair scheduling every call of one of the five methods
\* eventually returns; the lock is never held by a thread that is outside
\* the locked sections (it is released on every path), so a waiting thread
\* always waits for a thread that can run.
C14_EveryCallReturns ==
    /\ [](\A t \in Threads : pc[t] \in {"idle", "acquire"} => lock # t)
    /\ [](AllReturned => lock = NoThread)
    /\ \A t \in Threads : (pc[t] # "idle") ~> (pc[t] = "idle")

\* a thread waits for the lock that the other thread holds in the middle of
\* reset_metrics
C14_Witness ==
    \E t, u \in Threads :
        /\ pc[t] = "acquire"
        /\ lock = u
        /\ pc[u] = "rs_errors"

\* ===================================================================
\* Properties of the API functions (ApiSpec)
\* ===================================================================
\* the two API functions that take a limit
Listings == {"get_request_history", "get_error_log"}
\* a limit that is an integer of at least 1 (True is the integer 1)
PositiveInteger(x) == x.type \in {"int", "bool"} /\ x.n >= 1
\* the default limit and the cap of the function called last
DefaultOf(op) == IF op = "get_request_history" THEN 20 ELSE 10
CapOf(op) == IF op = "get_request_history" THEN 100 ELSE 50
Retained(op) == IF op = "get_request_history" THEN request_history ELSE error_log

\* C16: the API functions get_request_history(limit) and
\* get_error_log(limit) answer a limit that is not an integer (an instance
\* of int) or is below 1 with status "error" and the message "Limit must be
\* a positive integer", and leave the tracker as it was.
C16_BadLimitRejected ==
    [][(/\ lastCall'.op \in Listings
        /\ lastCall'.args # Omitted
        /\ ~PositiveInteger(lastCall'.args))
          => /\ ret' = [status |-> "error",
                        message |-> "Limit must be a positive integer"]
             /\ UNCHANGED <<inst, caps>>]_vars

\* get_error_log("3") was rejected although the error log holds records
C16_Witness ==
    /\ lastCall = ApiCall("get_error_log", PyStr("3"))
    /\ ret.status = "error"
    /\ error_log # <<>>

\* the limit the function called last works with
LimitAsked == IF lastCall.args = Omitted THEN DefaultOf(lastCall.op) ELSE lastCall.args.n

\* C17: for a positive integer limit (the default is 20 for
\* get_request_history, 10 for get_error_log) the API function returns
\* status "success" with exactly min(limit, cap, number retained) records,
\* the cap being 100 resp. 50, and count is the length of data.
C17_ListingLength ==
    (lastCall.op \in Listings
        /\ (lastCall.args = Omitted \/ PositiveInteger(lastCall.args))) =>
        /\ ret.status = "success"
        /\ Len(ret.data) = Min(Min(LimitAsked, CapOf(lastCall.op)),
                               Len(Retained(lastCall.op)))
        /\ ret.count = Len(ret.data)
        /\ ret.data = LastOf(Retained(lastCall.op), Len(ret.data))

\* get_request_history() without a limit returned 20 of more than 20
\* retained records
C17_Witness ==
    /\ lastCall = ApiCall("get_request_history", Omitted)
    /\ Len(request_history) > 20
    /\ ret.count = 20
    /\ Len(ret.data) = 20

\* the arguments pass the validations of simulate_agent_task and name a
\* duration that is a number
ValidTask(task) ==
    /\ task.task_name.type = "str" /\ Strip(task.task_name.s) # ""
    /\ task.duration.type \in {"int", "bool", "float"}
    /\ ~task.duration.nan /\ task.duration.n >= 0
    /\ task.should_fail.type = "bool"
AskedToFail == Cardinality({i \in 1..Len(log) : log[i].task.should_fail.n = 1})

\* C18: a simulate_agent_task call with valid arguments records exactly one
\* request: a success, returning status "success", when should_fail is
\* False, and a failure, returning status "error" with a 'Simulated failure'
\* message, when it is True; after n such calls since a reset, f of them
\* with should_fail, total_requests = n, successful_requests = n - f and
\* failed_requests = f.
C18_OneRecordPerTask ==
    /\ []((\A i \in 1..Len(log) : ValidTask(log[i].task)) =>
            /\ metrics.total_requests = Len(log)
            /\ metrics.failed_requests = AskedToFail
            /\ metrics.successful_requests = Len(log) - AskedToFail)
    /\ [][(lastCall'.op = "simulate_agent_task" /\ ValidTask(lastCall'.args)) =>
            /\ metrics'.total_requests = metrics.total_requests + 1
            /\ Len(request_history') = Len(request_history) + 1
            /\ IF lastCall'.args.should_fail.n = 1
               THEN /\ metrics'.failed_requests = metrics.failed_requests + 1
                    /\ metrics'.successful_requests = metrics.successful_requests
                    /\ ret'.status = "error"
                    /\ SubSeq(ret'.message, 1, 17) = "Simulated failure"
                    /\ ~request_history'[Len(request_history')].success
               ELSE /\ metrics'.successful_requests = metrics.successful_requests + 1
                    /\ metrics'.failed_requests = metrics.failed_requests
                    /\ ret'.status = "success"
                    /\ request_history'[Len(request_history')].success]_vars

\* three valid tasks since the reset, one of them asked to fail, the last
\* call being that one
C18_Witness ==
    /\ lastMut = "record_request"
    /\ Len(log) = 3
    /\ \A i \in 1..3 : ValidTask(log[i].task)
    /\ AskedToFail = 1
    /\ lastCall.op = "simulate_agent_task"
    /\ lastCall.args.should_fail.n = 1
    /\ ret.status = "error"
    /\ metrics.failed_requests = 1

ApiFunctions ==
    { "get_performance_metrics", "get_request_history", "get_error_log",
      "simulate_agent_task", "reset_performance_metrics", "get_dashboard_data" }

\* C19: every API function returns, for every input, a dict whose status is
\* "success" or "error"; no exception reaches the caller, and a dict with
\* status "error" carries a message.
C19_AlwaysAnEnvelope ==
    lastCall.op \in ApiFunctions =>
        /\ "status" \in DOMAIN ret
        /\ ret.status \in {"success", "error"}
        /\ ret.status = "error" => ("message" \in DOMAIN ret /\ ret.message # "")

\* The statements of simulate_agent_task outside the tracker's methods, and
\* those of a method of the tracker.
OutsideTracker == {"sim_validate", "sim_sleep", "sim_record"}
InsideTracker == PcValues \ {"idle"}

\* C15: in simulate_agent_task the delay happens entirely before
\* record_request is called: no thread is inside time.sleep, or anywhere in
\* the function outside record_request, while holding the tracker's lock,
\* so a thread that has to wait for the lock while a task sleeps waits for
\* a thread inside a method of the tracker, never for the sleeper; and a thread that has entered record_request does not sleep again
\* before it returns.
C15_NoSleepUnderLock ==
    /\ [](\A t \in Threads :
            /\ pc[t] \in OutsideTracker => lock # t
            /\ pc[t] = "sim_sleep" =>
                  \A u \in Threads \ {t} :
                      (pc[u] = "acquire" /\ ~CanAcquire(u)) =>
                          /\ lock \in Threads \ {t}
                          /\ pc[lock] \in InsideTracker)
    /\ [][\A t \in Threads :
            /\ pc[t] = "sim_sleep" => pc'[t] \in {"sim_sleep", "sim_record"}
            /\ pc[t] \in InsideTracker => pc'[t] \notin OutsideTracker]_vars

\* one thread sleeps in its task while the other holds the lock inside a
\* method it entered in the meantime
C15_Witness ==
    /\ pc["t1"] = "sim_sleep"
    /\ lock = "t2"
    /\ pc["t2"] \in {"rec_read", "gm_copy", "rs_dict"}

\* The name a greet call works on, and the positions of its characters that
\* are not whitespace.
GreetName == IF lastCall.args = Omitted THEN PyStr("World") ELSE lastCall.args
Inked(s) == {i \in 1..Len(s) : SubSeq(s, i, i) \notin Whitespace}
Least(S) == CHOOSE i \in S : \A j \in S : i <= j
Greatest(S) == CHOOSE i \in S : \A j \in S : i >= j
Trimmed(s) == SubSeq(s, Least(Inked(s)), Greatest(Inked(s)))

\* C20: greet(name) returns {error: "Name must be a non-empty string"}
\* exactly when name is not a string or is empty once leading and trailing
\* whitespace is stripped; otherwise it returns the stripped name as name
\* and "Hello, <stripped name>!" as message; the default name is "World".
C20_GreetStripped ==
    lastCall.op = "greet" =>
        IF GreetName.type # "str" \/ Inked(GreetName.s) = {}
        THEN ret = [error |-> "Name must be a non-empty string"]
        ELSE /\ DOMAIN ret = {"message", "name"}
             /\ ret.name = Trimmed(GreetName.s)
             /\ ret.message = "Hello, " \o Trimmed(GreetName.s) \o "!"

\* a name with whitespace before and after it
C20_Witness ==
    /\ lastCall = ApiCall("greet", PyStr("\ta "))
    /\ ret = [message |-> "Hello, a!", name |-> "a"]

\* ===================================================================
\* Stored and reported values of the accumulator (Spec)
\* ===================================================================
\* C21: get_metrics replaces the +infinity sentinel by 0 only in the copy it
\* returns: while no request has been recorded since construction or the
\* last reset the stored min_response_time is the sentinel, whatever
\* get_metrics calls were made, and the first record_request sets it to
\* that request's response time, also when it follows a get_metrics call
\* that returned 0.
C21_SentinelStaysStored ==
    /\ [](/\ Len(log) = 0 => metrics.min_response_time = Inf
          /\ Len(log) = 1 => metrics.min_response_time = log[1].args.response_time)
    /\ [][/\ lastCall'.op = "get_metrics" => metrics' = metrics
          /\ (lastCall.op = "get_metrics" /\ Len(log) = 0
                  /\ lastCall'.op = "record_request") =>
                 /\ ret.value.min_response_time = 0
                 /\ metrics'.min_response_time = log'[1].args.response_time]_vars

\* get_metrics has returned 0 as the minimum after a reset, and the stored
\* minimum is still the sentinel
C21_Witness ==
    /\ lastCall.op = "get_metrics"
    /\ lastMut = "reset_metrics"
    /\ Len(log) = 0
    /\ ret.value.min_response_time = 0
    /\ metrics.min_response_time = Inf

\* The call whose record is the k-th of the request log.
CallOfRecord(k) == log[Len(log) - Len(request_history) + k]
\* The running values are the unrounded sums, extremes and binary64
\* quotients of what the calls were given.
RunningValuesUnrounded ==
    log # <<>> =>
        /\ metrics.total_response_time = SumOfTimes(log)
        /\ metrics.min_response_time = MinOfTimes(log)
        /\ metrics.max_response_time = MaxOfTimes(log)
        /\ metrics.average_response_time = FDiv(SumOfTimes(log), Len(log))
        /\ metrics.success_rate = FMul100(FDiv(Succeeded, Len(log)))
        /\ metrics.error_rate = FMul100(FDiv(Failed, Len(log)))
\* The copy get_metrics has just returned is the stored dict, rounded.
SnapshotRounded ==
    lastCall.op = "get_metrics" =>
        /\ ret.value.average_response_time = FRound(metrics.average_response_time, 625, 2)
        /\ ret.value.max_response_time = FRound(FInt(metrics.max_response_time), 625, 2)
        /\ metrics.min_response_time # Inf =>
              ret.value.min_response_time = FRound(FInt(metrics.min_response_time), 625, 2)
        /\ ret.value.success_rate = FRound(metrics.success_rate, 100, 1)
        /\ ret.value.error_rate = FRound(metrics.error_rate, 100, 1)
        /\ ret.value.total_response_time = metrics.total_response_time

\* C22 as stated: nothing record_request stores is rounded, the
\* response_time of a request record included (a record counts units of
\* 10^-4 s and a call units of 2^-5 s: the two are equal when 2 * record =
\* 625 * call); only the copy a read returns is rounded.
C22_NothingStoredIsRounded ==
    /\ RunningValuesUnrounded
    /\ SnapshotRounded
    /\ \A k \in 1..Len(request_history) :
          2 * request_history[k].response_time = 625 * CallOfRecord(k).args.response_time

\* C22, amended: the running values record_request stores (sum, average,
\* min, max, rates) are unrounded and get_metrics rounds only the copy it
\* returns, latencies to 4 decimals and rates to 2; the response_time of a
\* request record is stored rounded to 4 decimals.
C22_RunningValuesUnroundedRecordsRounded ==
    /\ RunningValuesUnrounded
    /\ SnapshotRounded
    /\ \A k \in 1..Len(request_history) :
          request_history[k].response_time =
              FRound(FInt(CallOfRecord(k).args.response_time), 625, 2)

\* a request of 0.03125 s: the stored minimum is exact, the snapshot says
\* 0.0312 and so does the request record
C22_Witness ==
    /\ lastCall.op = "get_metrics"
    /\ metrics.min_response_time = 1
    /\ ret.value.min_response_time = 312
    /\ Len(request_history) >= 1
    /\ CallOfRecord(1).args.response_time = 1
    /\ request_history[1].response_time = 312

\* C23: the uptime_seconds of the snapshot get_metrics returns at time t is
\* t minus the start time (the construction or the most recent reset), in
\* whole seconds; the clock counts half seconds.
C23_UptimeIsNowMinusStart ==
    [][(lastCall'.op = "get_metrics" /\ now' = now) =>
          ret'.value.uptime_seconds = (now - server_start_time) \div 2]_vars

\* C24: the capacity of the request log (max_history, given at
\* construction) and that of the error log (50) never change: no
\* record_request, read or reset_metrics call alters them, and both logs
\* stay within them after any number of resets.
C24_CapacitiesFixed ==
    /\ [][max_history' = max_history /\ error_maxlen' = error_maxlen]_vars
    /\ [](/\ error_maxlen = ErrorLogMaxLen
          /\ Len(request_history) <= max_history
          /\ Len(error_log) <= error_maxlen)

\* after a reset made at time 3, three requests were recorded and the
\* request log, of capacity 2, holds two
C24_Witness ==
    /\ metrics.start_time = 3
    /\ lastMut = "record_request"
    /\ Len(log) = 3
    /\ max_history = 2
    /\ Len(request_history) = 2

\* ===================================================================
\* Tasks rejected by simulate_agent_task (ApiSpec)
\* ===================================================================
\* The validation that rejects a task, in the order of lines 271-278.
BadName(task) == task.task_name.type # "str" \/ Strip(task.task_name.s) = ""
BadDuration(task) ==
    \/ task.duration.type \notin {"int", "bool", "float"}
    \/ (~task.duration.nan /\ task.duration.n < 0)
BadFlag(task) == task.should_fail.type # "bool"
Rejected(task) == BadName(task) \/ BadDuration(task) \/ BadFlag(task)
ValidationMessage(task) ==
    IF BadName(task) THEN "Task name must be a non-empty string"
    ELSE IF BadDuration(task) THEN "Duration must be a non-negative number"
    ELSE "should_fail must be a boolean"
\* A task that passes the validations and sleeps.
SleepingTask == Task(PyStr("a"), PyFloat(3), PyBool(FALSE))

\* C28: a simulate_agent_task call rejected by a validation (task name
\* empty or only whitespace, or no string; duration negative or no number;
\* should_fail no boolean) sleeps for no time and is recorded as one failed
\* request: total_requests and failed_requests grow by one and an error
\* record with the validation message is appended to the error log.  The
\* name is one that can be formatted into the endpoint.
C28_RejectedTaskIsRecorded ==
    [][(/\ lastCall'.op = "simulate_agent_task"
        /\ Rejected(lastCall'.args)
        /\ Formats(lastCall'.args.task_name)) =>
          /\ metrics'.total_requests = metrics.total_requests + 1
          /\ metrics'.failed_requests = metrics.failed_requests + 1
          /\ metrics'.successful_requests = metrics.successful_requests
          /\ \A rt \in Elapsed(SleepingTask) :
                metrics'.total_response_time - metrics.total_response_time < rt
          /\ Len(error_log') = Min(Len(error_log) + 1, 50)
          /\ error_log'[Len(error_log')].error = ValidationMessage(lastCall'.args)
          /\ SubSeq(error_log'[Len(error_log')].endpoint, 1, 20) = "simulate_agent_task:"
          /\ ~request_history'[Len(request_history')].success
          /\ ret'.status = "error"
          /\ ret'.message = ValidationMessage(lastCall'.args)]_vars

\* a call with a negative duration was rejected and is the newest record
\* of the error log
C28_Witness ==
    /\ lastCall.op = "simulate_agent_task"
    /\ ~BadName(lastCall.args) /\ BadDuration(lastCall.args)
    /\ ret.status = "error"
    /\ Len(error_log) >= 2
    /\ error_log[Len(error_log)].error = "Duration must be a non-negative number"
    /\ error_log[Len(error_log)].endpoint = "simulate_agent_task:a"
    /\ metrics.failed_requests = Len(error_log)

\* ===================================================================
\* Counts and logs when the lock is free (ThreadSpec)
\* ===================================================================
\* C30: whenever the lock is free, the request log holds
\* min(total_requests, max_history) records and the error log at most
\* min(failed_requests, 50), after any interleaving of record_request and
\* reset_metrics calls: counts of zero never go with a log that is not
\* empty, nor an empty request log with counts that are not zero.
C30_LogsMatchCounts ==
    lock = NoThread =>
        /\ Len(request_history) = Min(metrics.total_requests, max_history)
        /\ Len(error_log) <= Min(metrics.failed_requests, 50)
        /\ metrics.total_requests = 0 => (request_history = <<>> /\ error_log = <<>>)
        /\ (metrics.total_requests > 0 /\ max_history > 0) => request_history # <<>>

\* both threads have recorded requests, three in all and one of them
\* failed, and the request log of capacity 2 is full
C30_Witness ==
    /\ lock = NoThread
    /\ \A t \in Threads : pc[t] = "idle" /\ CallsOf({t}, "record_request") >= 1
    /\ metrics.total_requests = 3
    /\ metrics.failed_requests = 1
    /\ Len(request_history) = 2
    /\ Len(error_log) = 1

\* ===================================================================
\* Properties of the error log when it is full (ErrorsSpec)
\* ===================================================================
\* The error records of the failed calls since construction or the last
\* reset that carried a message.
LoggedCalls == SelectSeq(log, LAMBDA c : ~c.args.success /\ Truthy(c.args.error_message))
AllErrors ==
    [i \in 1..Len(LoggedCalls) |->
        [timestamp |-> LoggedCalls[i].at, endpoint |-> LoggedCalls[i].args.endpoint,
         error |-> LoggedCalls[i].args.error_message]]

\* C25: the error log never holds more than 50 records: after 50 + k error
\* records were appended it holds exactly the last 50, in the order they
\* were recorded, whatever max_history is, and get_error_log() returns
\* them.
C25_BoundedErrorLog ==
    /\ Len(error_log) <= 50
    /\ error_log = LastOf(AllErrors, 50)
    /\ Len(AllErrors) >= 50 => Len(error_log) = 50
    /\ lastCall = Call("get_error_log", <<>>) => ret.value = LastOf(AllErrors, 50)

\* 52 error records were appended to an instance whose request log keeps
\* one record: the error log holds the 3rd to the 52nd
C25_Witness ==
    /\ max_history = 1
    /\ Len(request_history) = 1
    /\ Len(AllErrors) = 52
    /\ Len(error_log) = 50
    /\ error_log[1].endpoint = "task3"
    /\ error_log[50].error = "boom 52"
    /\ lastCall = Call("get_error_log", <<>>)
    /\ ret.value = error_log

\* ===================================================================
\* Properties of the BMI functions (BmiSpec)
\* ===================================================================
BmiError == [error |-> "Height and weight must be positive values"]

\* C26: calculate_bmi(height, weight) returns the error value, without a
\* bmi, whenever height <= 0 or weight <= 0, and bmi_assessment returns the
\* same value, without category or message; for positive height and weight
\* both return a bmi, which is weight / height^2 rounded to 2 decimals.
C26_BmiOrError ==
    lastCall.op \in {"calculate_bmi", "bmi_assessment"} =>
        IF lastCall.args.height.m <= 0 \/ lastCall.args.weight.m <= 0
        THEN ret = BmiError
        ELSE /\ "bmi" \in DOMAIN ret
             /\ ~SquareIsZero(lastCall.args.height) =>
                   ret.bmi = FRound(Quotient(lastCall.args.height,
                                             lastCall.args.weight), 100, 1)

\* C27: get_bmi_category gives every BMI value exactly one category, each
\* boundary belonging to the band above it: bmi < 18.5 is Underweight,
\* 18.5 <= bmi < 25 is Normal weight, 25 <= bmi < 30 is Overweight and
\* bmi >= 30 is Obesity (BMI values count hundredths).
C27_OneCategoryPerBmi ==
    lastCall.op = "get_bmi_category" =>
        /\ DOMAIN ret = {"category"}
        /\ ret.category \in {"Underweight", "Normal weight", "Overweight", "Obesity"}
        /\ ret.category = "Underweight" <=> lastCall.args.bmi < 1850
        /\ ret.category = "Normal weight" <=>
              (lastCall.args.bmi >= 1850 /\ lastCall.args.bmi < 2500)
        /\ ret.category = "Overweight" <=>
              (lastCall.args.bmi >= 2500 /\ lastCall.args.bmi < 3000)
        /\ ret.category = "Obesity" <=> lastCall.args.bmi >= 3000

\* a BMI of exactly 25 is Overweight
C27_Witness ==
    /\ lastCall = ApiCall("get_bmi_category", [bmi |-> 2500])
    /\ ret = [category |-> "Overweight"]

\* ===================================================================
\* Properties of get_dashboard_data among threads (DashSpec)
\* ===================================================================
\* The dashboards returned to the threads.
Dashboards ==
    {loc[t].ret.value : t \in {u \in Threads : loc[u].ret.kind = "dashboard"}}

\* C29: get_dashboard_data is not one atomic read: it takes the lock three
\* separate times, for the metrics, then the recent requests, then the
\* recent errors.  A thread inside it holds the lock only inside one of the
\* three methods, never from one to the next, and each part is what its
\* method returns on the tracker as it is when the lock is taken; so
\* another thread's record_request or reset_metrics can take effect between
\* the parts, and a returned dashboard can list a request that the
\* total_requests of its own metrics does not count.
C29_DashboardReadsThreeTimes ==
    /\ [](\A t \in Threads :
            InDashboard(t) =>
                /\ pc[t] \in {"acquire", "idle"} => lock # t
                /\ pc[t] = "release" => loc[t].ret = loc[t].expect
                /\ Len(loc[t].call.got) = loc[t].call.part - 1)
    /\ [][\A t \in Threads :
            (/\ InDashboard(t) /\ pc[t] # "idle"
             /\ "part" \in DOMAIN loc'[t].call
             /\ loc'[t].call.part # loc[t].call.part) =>
                /\ lock = t /\ lock' = NoThread
                /\ pc'[t] = "acquire"
                /\ loc'[t].call.part = loc[t].call.part + 1]_vars

\* a dashboard was returned whose metrics count no request while its recent
\* requests hold one
C29_Witness ==
    \E d \in Dashboards :
        /\ d.metrics.total_requests = 0
        /\ Len(d.recent_requests) = 1

\* ------------------------------------------------------------------------
\* The running response times after a long run (TimesSpec)
\* ------------------------------------------------------------------------
\* x * k in binary64, x > 0 a binary64 value and k >= 1 an integer small
\* enough for k * |x.err| to stay below 2^x.exp (the product then lies in the
\* binade of its exact part, or just below it).
FMul(x, k) ==
    LET A == k * x.num
        n == x.den
        K == x.exp
        e0 == FloorLog2(A, n)
        E == IF e0 >= 0 /\ A = Pow2(e0) * n /\ x.err < 0 THEN e0 - 1 ELSE e0
        m == n * Pow2(K - (MantBits - E))
        N1 == ((A % m) * Pow2Mod(K, m) + k * x.err) % m
        N2 == ((A % (2 * m)) * Pow2Mod(K, 2 * m) + k * x.err) % (2 * m)
    IN  Fl(A, n, k * x.err + RoundCorr(N1, m, N2 >= m), K)

\* The stored average, multiplied by the stored number of requests.
AverageTimesRequests ==
    IF metrics.average_response_time.num = 0 THEN FZero
    ELSE FMul(metrics.average_response_time, metrics.total_requests)

\* 0 <= min <= average <= max of the stored values.
TimesOrdered ==
    /\ 0 <= metrics.min_response_time
    /\ FCmp(FInt(metrics.min_response_time), metrics.average_response_time) <= 0
    /\ FCmp(metrics.average_response_time, FInt(metrics.max_response_time)) <= 0

\* C31 (as stated): once a request is recorded, 0 <= min_response_time <=
\* average_response_time <= max_response_time and total_response_time ==
\* average_response_time * total_requests.
C31_AverageTimesCountIsTotal ==
    metrics.total_requests > 0 =>
        /\ TimesOrdered
        /\ FCmp(AverageTimesRequests, FInt(metrics.total_response_time)) = 0

\* C31 (amended): once a request is recorded, with response times >= 0 whose
\* running sum is exact, 0 <= min_response_time <= average_response_time <=
\* max_response_time, and average_response_time is the binary64 quotient
\* total_response_time / total_requests: it is within half a unit in the last
\* place of the exact quotient, and multiplying it back gives
\* total_response_time only when the product rounds to it.
C31_AverageIsRoundedQuotient ==
    metrics.total_requests > 0 =>
        /\ TimesOrdered
        /\ metrics.min_response_time <= metrics.max_response_time
        /\ metrics.average_response_time =
               FDiv(metrics.total_response_time, metrics.total_requests)
        /\ 2 * Abs(metrics.average_response_time.err)
               <= metrics.average_response_time.den

\* Eleven requests, nine of 1/32 s and two of 3/32 s: the sum is 15/32 s, the
\* average is the rounded quotient, and the average times 11 is not the sum.
C31_Witness ==
    /\ metrics.total_requests = 11
    /\ metrics.total_response_time = 15
    /\ metrics.min_response_time = 1
    /\ metrics.max_response_time = 3
    /\ metrics.average_response_time = FDiv(15, 11)
    /\ metrics.average_response_time.err # 0
    /\ FCmp(AverageTimesRequests, FInt(15)) # 0

\* ------------------------------------------------------------------------
\* A limit of 0 given to the accumulator's readers (Spec)
\* ------------------------------------------------------------------------
\* C32: PerformanceMetrics.get_request_history(0) and get_error_log(0)
\* return all retained records, as a call without a limit does, and not an
\* empty list.
C32_ZeroLimitIsNoLimit ==
    /\ lastCall = Call("get_request_history", <<0>>) =>
          /\ ret.value = request_history
          /\ ret = Returned(Self, Call("get_request_history", <<>>))
          /\ Len(ret.value) = Min(metrics.total_requests, max_history)
    /\ lastCall = Call("get_error_log", <<0>>) =>
          /\ ret.value = error_log
          /\ ret = Returned(Self, Call("get_error_log", <<>>))
          /\ Len(ret.value) = Cardinality({k \in 1..Len(log) :
                                  /\ ~log[k].args.success
                                  /\ Truthy(log[k].args.error_message)})

\* get_request_history(0) on an instance that retains two different records
\* of three returned both, while get_request_history(1) would return one
C32_Witness ==
    /\ lastCall = Call("get_request_history", <<0>>)
    /\ metrics.total_requests = 3
    /\ Len(request_history) = 2
    /\ request_history[1] # request_history[2]
    /\ ret.value = request_history
    /\ Len(Recent(request_history, <<1>>)) = 1

\* ------------------------------------------------------------------------
\* The category reported by bmi_assessment (BmiSpec)
\* ------------------------------------------------------------------------
\* The arguments of the latest call are a positive height and weight.
PositiveArgs == lastCall.args.height.m > 0 /\ lastCall.args.weight.m > 0

\* C33: for a positive height and weight, the bmi that bmi_assessment returns
\* is the quotient rounded to 2 decimals, and the category it returns is the
\* one get_bmi_category gives for that returned bmi, also where the quotient
\* before rounding lies in another band.
C33_CategoryOfReturnedBmi ==
    (lastCall.op = "bmi_assessment" /\ PositiveArgs
        /\ ~SquareIsZero(lastCall.args.height)) =>
        /\ DOMAIN ret = {"bmi", "category", "message"}
        /\ ret.bmi = FRound(Quotient(lastCall.args.height, lastCall.args.weight),
                            100, 1)
        /\ ret.category = Category(ret.bmi)
        /\ ret.message = "Your BMI is " \o BmiText(ret.bmi)
                             \o ", which is classified as '"
                             \o Category(ret.bmi) \o "'"

\* bmi_assessment(2.0, 99.990234375): the quotient 24.99755859375 is in
\* the band of 'Normal weight', the returned bmi is 25.0 and the returned
\* category is 'Overweight'
C33_Witness ==
    /\ lastCall = ApiCall("bmi_assessment",
                          [height |-> Num(8, -2), weight |-> Num(102390, -10)])
    /\ QuotientCategory(Quotient(lastCall.args.height, lastCall.args.weight))
           = "Normal weight"
    /\ ret.bmi = 2500
    /\ ret.category = "Overweight"
    /\ ret.category = Category(ret.bmi)

====
